---------------------------- MODULE Spec2Model ----------------------------
(***************************************************************************)
(* EPCM Project Scorecard (ProManLite): the SQLite store of database.py    *)
(* and the operations of its *DB classes.                                  *)
(*                                                                         *)
(* Tables are modelled as sets or sequences of rows; a sequence is used    *)
(* where rows are never deleted, so that the position is the AUTOINCREMENT *)
(* id.  REAL columns hold integers here: hours are whole hours and money   *)
(* whole dollars, and the input sets are chosen so that every division the *)
(* code performs is exact.  Dates are day numbers (ISO date strings order  *)
(* the same way).                                                          *)
(***************************************************************************)
EXTENDS Integers, Sequences, FiniteSets, TLC

VARIABLES
    projects,           \* table projects, row i has id i
    deliverables,       \* table deliverables, a set of rows with an id
    seq_deliverables,   \* sqlite_sequence of deliverables: the last id given
    purchase_orders,    \* table purchase_orders, row i has id i
    invoices,           \* table invoices, row i has id i
    timesheets,         \* table timesheets, row i has id i
    rate_schedule,      \* table rate_schedule, a set of rows
    weekly_snapshots,   \* table weekly_snapshots, a set of rows
    conn,               \* the connection of a call that is between statements
    result,             \* the last call: operation, arguments, outcome
    clock,              \* datetime.now(), in ticks
    snapshot_calls,     \* create_snapshot calls made so far, per project and day
    change_orders,      \* table change_orders, row i has id i
    manning_forecast,   \* table manning_forecast, a set of rows with an id
    seq_manning,        \* sqlite_sequence of manning_forecast
    staff,              \* table staff, a set of rows
    sessions,           \* the connections of concurrent create_invoice calls
    writer              \* the connection that holds the write lock, or 0

vars == <<projects, deliverables, seq_deliverables, purchase_orders, invoices,
          timesheets, rate_schedule, weekly_snapshots, conn, result, clock,
          snapshot_calls, change_orders, manning_forecast, seq_manning,
          staff, sessions, writer>>

---------------------------------------------------------------------------
(* Bounds of the model *)

MaxPO == 2
MaxInvoices == 3
MaxDelivId == 2
MaxSeq == 4
MaxDfRows == 2
MaxTimesheets == 2
MaxSnapshotCalls == 2
MaxClock == 3
MaxRates == 2
MaxManningId == 3
MaxCO == 1
MaxBudgetHours == 160
MaxDate == 200
MaxTimeLen == 5
MaxTaskLen == 4
MaxProjectRows == 2
TicksPerDay == 2

---------------------------------------------------------------------------
(* SQL NULL / Python None, for numeric and for text columns *)

NULL == 0 - 999
NoneText == "<None>"

(* Input values *)

ProjectCodes == {"PRJ-1", "PRJ-2"}
ProjectNames == {"Alpha"}
Clients == {"Acme"}

CommitmentValues == {10000}
InvoiceAmounts == {2000, 3000}
AccrualValues == {0, 1000}

Functions == {"MANAGEMENT", "ENGINEERING"}
DelivNames == {"Design"}
BudgetValues == {100}

\* keyword arguments of update_deliverable
UpdateKwargs ==
    {[physical_progress |-> 150],
     [physical_progress |-> 0 - 10, manual_progress_override |-> 1,
      earned_hours |-> 30],
     [manual_progress_override |-> 0]}

\* rows of the DataFrame given to bulk_update_deliverables
BulkRows ==
    {[deliverable_name |-> "Design", function |-> "ENGINEERING",
      budget_hours |-> 200, physical_progress |-> 0 - 10,
      manual_progress_override |-> 0, earned_hours |-> 0,
      forecast_to_complete |-> 200],
     [deliverable_name |-> "Model", function |-> "MANAGEMENT",
      budget_hours |-> 100, physical_progress |-> 50,
      manual_progress_override |-> 1, earned_hours |-> 30,
      forecast_to_complete |-> 40],
     [deliverable_name |-> NoneText, function |-> "ENGINEERING",
      budget_hours |-> 100, physical_progress |-> 0,
      manual_progress_override |-> 0, earned_hours |-> 0,
      forecast_to_complete |-> 100]}

DataFrames == UNION {[1..n -> BulkRows] : n \in 0..MaxDfRows}

\* rows of a frame that has no forecast_to_complete column
RowsWithoutFtcColumn ==
    {[deliverable_name |-> "Design", function |-> "ENGINEERING",
      budget_hours |-> 200],
     [deliverable_name |-> "Model", function |-> "MANAGEMENT",
      budget_hours |-> 100]}

\* rows of the frame st.data_editor returns: every column of edit_df is
\* present, and a row added in the editor has NULL in the cells left empty
EditorRows ==
    {[deliverable_name |-> "Design", function |-> "ENGINEERING",
      budget_hours |-> 200, physical_progress |-> 0,
      manual_progress_override |-> 0, earned_hours |-> 0,
      forecast_to_complete |-> 40],
     [deliverable_name |-> "Model", function |-> "MANAGEMENT",
      budget_hours |-> 100, physical_progress |-> NULL,
      manual_progress_override |-> NULL, earned_hours |-> NULL,
      forecast_to_complete |-> NULL]}

\* a frame has the same columns in every row
EditedFrames ==
    UNION {[1..n -> RowsWithoutFtcColumn] \cup [1..n -> EditorRows] :
               n \in 0..MaxDfRows}

\* rows of the DataFrame given to import_timesheets
TimesheetRows ==
    {[date |-> 1, staff_name |-> "Will Smith", task_name |-> "PM review",
      hours |-> 8, function |-> "MANAGEMENT", rate |-> 195, cost |-> 1560,
      week_ending |-> 5],
     [date |-> 2, staff_name |-> "Ben Bowles", task_name |-> "Layout",
      hours |-> 4, function |-> "ENGINEERING", rate |-> 170, cost |-> 680,
      week_ending |-> 5],
     [date |-> 2, staff_name |-> "Ben Bowles", task_name |-> "Layout",
      hours |-> NULL, function |-> "ENGINEERING", rate |-> 170, cost |-> NULL,
      week_ending |-> 5]}

TimesheetFrames == UNION {[1..n -> TimesheetRows] : n \in 0..MaxDfRows}

BatchIds == {"20250102-090000"}
WeekEndings == {5}

\* rate_schedule rows beyond the defaults of init_database
Positions == {"Lead Engineer", "Contractor", "Unknown"}
AsOfDates == {NULL} \cup (0 - 1)..5
RateRows ==
    [position : {"Lead Engineer", "Contractor"},
     rate : {100, 120},
     effective_date : {1, 3},
     end_date : {NULL, 3, 5}]

---------------------------------------------------------------------------
(* Helpers *)

RECURSIVE SeqSum(_)
SeqSum(s) == IF s = <<>> THEN 0 ELSE Head(s) + SeqSum(Tail(s))

RECURSIVE SetSum(_, _)
\* sum of f[x] over the finite set S
SetSum(f, S) ==
    IF S = {} THEN 0
    ELSE LET x == CHOOSE y \in S : TRUE IN f[x] + SetSum(f, S \ {x})

Idle == [pc |-> "idle"]

\* the connections that run create_invoice side by side
Sessions == {1, 2}

Call(op, args, status, value) ==
    [op |-> op, args |-> args, status |-> status, value |-> value]

ProjectIds == 1..Len(projects)

---------------------------------------------------------------------------
(* ProjectDB *)

\* INSERT INTO projects: project_code UNIQUE NOT NULL, name and client NOT NULL
ProjectInsertOk(name, client, project_code) ==
    /\ name # NoneText
    /\ client # NoneText
    /\ project_code # NoneText
    /\ \A i \in ProjectIds : projects[i].project_code # project_code

create_project(name, client, project_code) ==
    /\ conn = Idle
    /\ IF ProjectInsertOk(name, client, project_code)
         THEN /\ projects' = Append(projects,
                    [name |-> name, client |-> client,
                     project_code |-> project_code])
              /\ result' = Call("create_project", <<project_code>>, "ok",
                                Len(projects) + 1)
         ELSE /\ projects' = projects
              /\ result' = Call("create_project", <<project_code>>, "error", 0)
    /\ UNCHANGED <<change_orders, manning_forecast, seq_manning, staff, sessions, writer>>
    /\ UNCHANGED <<deliverables, seq_deliverables, purchase_orders, invoices,
                   timesheets, rate_schedule, weekly_snapshots, conn, clock,
                   snapshot_calls>>

---------------------------------------------------------------------------
(* PODB and InvoiceDB *)

\* SELECT SUM(amount) FROM invoices WHERE po_id=?  (NULL when no row matches)
SumRec(inv, po_id, i) ==
    IF inv[i].po_id = po_id THEN inv[i].amount ELSE 0

RECURSIVE SumUpTo(_, _, _)
SumUpTo(inv, po_id, n) ==
    IF n = 0 THEN 0 ELSE SumRec(inv, po_id, n) + SumUpTo(inv, po_id, n - 1)

\* the same query without its WHERE po_id=? clause
TotalInvoicedAnyPO(inv, po_id) ==
    IF inv = <<>> THEN NULL
    ELSE SeqSum([i \in 1..Len(inv) |-> inv[i].amount])

TotalInvoiced(inv, po_id) ==
    IF \E i \in 1..Len(inv) : inv[i].po_id = po_id
      THEN SumUpTo(inv, po_id, Len(inv))
      ELSE NULL

\* the subtraction with the invoiced term left out
RemainingWithoutInvoiced(commitment, invoiced, accrued_work_done) ==
    commitment - accrued_work_done

\* remaining = commitment - invoiced - accrued_work_done
Remaining(commitment, invoiced, accrued_work_done) ==
    commitment - invoiced - accrued_work_done

create_po(project_id, commitment_value) ==
    /\ conn = Idle
    /\ Len(purchase_orders) < MaxPO
    /\ purchase_orders' = Append(purchase_orders,
           [project_id |-> project_id,
            commitment_value |-> commitment_value,
            invoiced_to_date |-> 0,
            accrued_work_done |-> 0,
            remaining_commitment |-> 0])
    /\ result' = Call("create_po", <<project_id, commitment_value>>, "ok",
                      Len(purchase_orders) + 1)
    /\ UNCHANGED <<change_orders, manning_forecast, seq_manning, staff, sessions, writer>>
    /\ UNCHANGED <<projects, deliverables, seq_deliverables, invoices,
                   timesheets, rate_schedule, weekly_snapshots, conn, clock,
                   snapshot_calls>>

update_po_accrual(po_id, accrued_work_done) ==
    /\ conn = Idle
    /\ IF po_id \in 1..Len(purchase_orders)
         THEN LET total == TotalInvoiced(invoices, po_id)
                  invoiced == IF total = NULL \/ total = 0 THEN 0 ELSE total
                  commitment == purchase_orders[po_id].commitment_value
                  remaining == Remaining(commitment, invoiced, accrued_work_done)
              IN  /\ purchase_orders' = [purchase_orders EXCEPT
                         ![po_id].accrued_work_done = accrued_work_done,
                         ![po_id].remaining_commitment = remaining]
                  /\ result' = Call("update_po_accrual",
                                    <<po_id, accrued_work_done>>, "ok", 0)
         ELSE \* .iloc[0] on the empty commitment query raises IndexError
              /\ purchase_orders' = purchase_orders
              /\ result' = Call("update_po_accrual",
                                <<po_id, accrued_work_done>>, "error", 0)
    /\ UNCHANGED <<change_orders, manning_forecast, seq_manning, staff, sessions, writer>>
    /\ UNCHANGED <<projects, deliverables, seq_deliverables, invoices,
                   timesheets, rate_schedule, weekly_snapshots, conn, clock,
                   snapshot_calls>>

\* a create_invoice that went on to recompute remaining_commitment
create_invoice_with_remaining(po_id, amount) ==
    /\ conn = Idle
    /\ Len(invoices) < MaxInvoices
    /\ LET inserted == Append(invoices, [po_id |-> po_id, amount |-> amount])
           total_invoiced == TotalInvoiced(inserted, po_id)
           po == purchase_orders[po_id]
       IN  /\ invoices' = inserted
           /\ purchase_orders' = [purchase_orders EXCEPT
                  ![po_id].invoiced_to_date = total_invoiced,
                  ![po_id].remaining_commitment =
                      Remaining(po.commitment_value, total_invoiced,
                                po.accrued_work_done)]
           /\ result' = Call("create_invoice", <<po_id, amount>>, "ok",
                             Len(inserted))
    /\ UNCHANGED <<change_orders, manning_forecast, seq_manning, staff,
                   sessions, writer>>
    /\ UNCHANGED <<projects, deliverables, seq_deliverables, timesheets,
                   rate_schedule, weekly_snapshots, conn, clock,
                   snapshot_calls>>

create_invoice(po_id, amount) ==
    /\ conn = Idle
    /\ Len(invoices) < MaxInvoices
    /\ LET inserted == Append(invoices, [po_id |-> po_id, amount |-> amount])
           total_invoiced == TotalInvoiced(inserted, po_id)
       IN  /\ invoices' = inserted
           /\ purchase_orders' = [purchase_orders EXCEPT
                  ![po_id].invoiced_to_date = total_invoiced]
           /\ result' = Call("create_invoice", <<po_id, amount>>, "ok",
                             Len(inserted))
    /\ UNCHANGED <<change_orders, manning_forecast, seq_manning, staff, sessions, writer>>
    /\ UNCHANGED <<projects, deliverables, seq_deliverables, timesheets,
                   rate_schedule, weekly_snapshots, conn, clock,
                   snapshot_calls>>

---------------------------------------------------------------------------
(* DeliverableDB *)

\* the columns of a deliverables row that a caller supplies
DelivColumns == {"deliverable_name", "function", "budget_hours",
                 "physical_progress", "manual_progress_override",
                 "earned_hours", "forecast_to_complete"}

\* deliverable_name, function and budget_hours are NOT NULL
DelivInsertOk(row) ==
    /\ row.deliverable_name # NoneText
    /\ row.function # NoneText
    /\ row.budget_hours # NULL

\* row.get(key, default) of a pandas row: the default is returned only when
\* the frame has no such column; an empty cell of a column that is present
\* comes back as it is (NaN, bound as NULL)
RowGet(row, key, default) ==
    IF key \in DOMAIN row THEN row[key] ELSE default

\* the stored row: id from AUTOINCREMENT, project_id, then the given columns
DelivRow(id, project_id, row) ==
    [id |-> id, project_id |-> project_id,
     deliverable_name |-> row.deliverable_name,
     function |-> row.function,
     budget_hours |-> row.budget_hours,
     physical_progress |-> RowGet(row, "physical_progress", 0),
     manual_progress_override |-> RowGet(row, "manual_progress_override", 0),
     earned_hours |-> RowGet(row, "earned_hours", 0),
     forecast_to_complete |->
         RowGet(row, "forecast_to_complete", row.budget_hours)]

\* the columns back from a stored row
DelivContent(d) == [c \in DelivColumns |-> d[c]]

\* SELECT ... FROM deliverables WHERE project_id=?
DeliverablesOf(tbl, project_id) == {d \in tbl : d.project_id = project_id}

create_deliverable(project_id, name, function, budget_hours) ==
    /\ conn = Idle
    /\ seq_deliverables < MaxDelivId
    /\ LET row == [deliverable_name |-> name, function |-> function,
                   budget_hours |-> budget_hours,
                   physical_progress |-> 0,
                   manual_progress_override |-> 0,
                   earned_hours |-> 0,
                   forecast_to_complete |-> budget_hours]
       IN  IF DelivInsertOk(row)
             THEN /\ deliverables' = deliverables \cup
                        {DelivRow(seq_deliverables + 1, project_id, row)}
                  /\ seq_deliverables' = seq_deliverables + 1
                  /\ result' = Call("create_deliverable", <<>>, "ok",
                                    seq_deliverables + 1)
             ELSE /\ UNCHANGED <<deliverables, seq_deliverables>>
                  /\ result' = Call("create_deliverable", <<>>, "error", 0)
    /\ UNCHANGED <<change_orders, manning_forecast, seq_manning, staff, sessions, writer>>
    /\ UNCHANGED <<projects, purchase_orders, invoices, timesheets,
                   rate_schedule, weekly_snapshots, conn, clock,
                   snapshot_calls>>

\* UPDATE deliverables SET k=v, ... WHERE id=?   (kwargs is a record)
update_deliverable(deliv_id, kwargs) ==
    /\ conn = Idle
    /\ deliverables' =
         {IF d.id = deliv_id
            THEN [c \in DOMAIN d |->
                     IF c \in DOMAIN kwargs THEN kwargs[c] ELSE d[c]]
            ELSE d : d \in deliverables}
    /\ result' = Call("update_deliverable", <<>>, "ok", 0)
    /\ UNCHANGED <<change_orders, manning_forecast, seq_manning, staff, sessions, writer>>
    /\ UNCHANGED <<projects, seq_deliverables, purchase_orders, invoices,
                   timesheets, rate_schedule, weekly_snapshots, conn, clock,
                   snapshot_calls>>

\* the CASE expression with physical_progress clamped to 0..100
EarnedCaseClamped(d) ==
    IF d.manual_progress_override = 1
      THEN d.earned_hours
      ELSE LET pp == IF d.physical_progress < 0 THEN 0
                     ELSE IF d.physical_progress > 100 THEN 100
                     ELSE d.physical_progress
           IN  (d.budget_hours * pp) \div 100

\* CASE WHEN manual_progress_override=1 THEN earned_hours
\*      ELSE budget_hours * physical_progress / 100.0 END
EarnedCase(d) ==
    IF d.manual_progress_override = 1
      THEN d.earned_hours
      ELSE (d.budget_hours * d.physical_progress) \div 100

\* df['earned'].sum() if not df.empty else 0
calculate_earned_value(project_id) ==
    LET df == DeliverablesOf(deliverables, project_id)
        earned == [d \in df |-> EarnedCase(d)]
    IN  IF df # {} THEN SetSum(earned, df) ELSE 0

\* a grouping that reports every function, with 0 for those without rows
GroupByFunctionZeroFilled(rows, val) ==
    [f \in Functions |-> SetSum(val, {r \in rows : r.function = f})]

\* SELECT function, SUM(val) FROM rows GROUP BY function: one entry per
\* function that occurs among the rows; val[r] is the summed column of row r
GroupByFunction(rows, val) ==
    [f \in {r.function : r \in rows} |->
        SetSum(val, {r \in rows : r.function = f})]

\* SELECT * FROM timesheets WHERE project_id=?, as a set of (id, row)
TimesheetsOf(project_id) ==
    {[id |-> i, function |-> timesheets[i].function,
      hours |-> timesheets[i].hours, cost |-> timesheets[i].cost] :
        i \in {j \in 1..Len(timesheets) :
                  timesheets[j].project_id = project_id}}

\* the earned query of get_project_summary without WHERE project_id=?
SummaryEarnedAllProjects(project_id) ==
    GroupByFunction(deliverables, [d \in deliverables |-> EarnedCase(d)])

\* the earned query of get_project_summary
SummaryEarned(project_id) ==
    LET delivs == DeliverablesOf(deliverables, project_id)
    IN  GroupByFunction(delivs, [d \in delivs |-> EarnedCase(d)])

get_project_summary(project_id) ==
    LET delivs == DeliverablesOf(deliverables, project_id)
        ts == TimesheetsOf(project_id)
    IN  [budget   |-> GroupByFunction(delivs,
                          [d \in delivs |-> d.budget_hours]),
         actuals  |-> [actual_hours |->
                           GroupByFunction(ts, [t \in ts |-> t.hours]),
                       actual_cost |->
                           GroupByFunction(ts, [t \in ts |-> t.cost])],
         earned   |-> SummaryEarned(project_id),
         forecast |-> GroupByFunction(delivs,
                          [d \in delivs |-> d.forecast_to_complete])]

(* bulk_update_deliverables, statement by statement.  The connection runs  *)
(* the DELETE and the INSERTs in one implicit transaction: work is the     *)
(* table as the connection sees it, deliverables what is committed.        *)

\* the same connection with every statement committed as it runs
AutoCommit(committed, work) == work

\* a connection closed without commit: its transaction is rolled back
Rollback(committed, work) == committed

\* conn.commit()
Commit(committed, work) == work

bulk_update_deliverables_delete(project_id, df) ==
    /\ conn = Idle
    /\ seq_deliverables + Len(df) <= MaxSeq
    /\ conn' = [pc |-> "bulk_insert", project_id |-> project_id, df |-> df,
                i |-> 1,
                work |-> deliverables \ DeliverablesOf(deliverables, project_id),
                seq |-> seq_deliverables]
    /\ UNCHANGED <<change_orders, manning_forecast, seq_manning, staff, sessions, writer>>
    /\ UNCHANGED <<projects, deliverables, seq_deliverables, purchase_orders,
                   invoices, timesheets, rate_schedule, weekly_snapshots,
                   result, clock, snapshot_calls>>

bulk_update_deliverables_insert ==
    /\ conn.pc = "bulk_insert"
    /\ conn.i <= Len(conn.df)
    /\ LET row == conn.df[conn.i]
       IN  IF DelivInsertOk(row)
             THEN /\ conn' = [conn EXCEPT
                        !.work = @ \cup {DelivRow(conn.seq + 1,
                                                  conn.project_id, row)},
                        !.seq = @ + 1,
                        !.i = @ + 1]
                  /\ UNCHANGED <<deliverables, seq_deliverables, result>>
             ELSE \* IntegrityError leaves the function: no commit, no close
                  /\ conn' = Idle
                  /\ deliverables' = Rollback(deliverables, conn.work)
                  /\ seq_deliverables' = Rollback(seq_deliverables, conn.seq)
                  /\ result' = Call("bulk_update_deliverables",
                                    <<conn.project_id, conn.df>>, "error",
                                    conn.i)
    /\ UNCHANGED <<change_orders, manning_forecast, seq_manning, staff, sessions, writer>>
    /\ UNCHANGED <<projects, purchase_orders, invoices, timesheets,
                   rate_schedule, weekly_snapshots, clock, snapshot_calls>>

bulk_update_deliverables_commit ==
    /\ conn.pc = "bulk_insert"
    /\ conn.i > Len(conn.df)
    /\ deliverables' = Commit(deliverables, conn.work)
    /\ seq_deliverables' = Commit(seq_deliverables, conn.seq)
    /\ conn' = Idle
    /\ result' = Call("bulk_update_deliverables",
                      <<conn.project_id, conn.df>>, "ok", 0)
    /\ UNCHANGED <<change_orders, manning_forecast, seq_manning, staff, sessions, writer>>
    /\ UNCHANGED <<projects, purchase_orders, invoices, timesheets,
                   rate_schedule, weekly_snapshots, clock, snapshot_calls>>

---------------------------------------------------------------------------
(* TimesheetDB *)

\* date, staff_name, hours, function, rate, cost, week_ending are NOT NULL
TimesheetInsertOk(row) ==
    /\ row.date # NULL
    /\ row.staff_name # NoneText
    /\ row.hours # NULL
    /\ row.function # NoneText
    /\ row.rate # NULL
    /\ row.cost # NULL
    /\ row.week_ending # NULL

TimesheetRow(project_id, row, batch_id) ==
    [project_id |-> project_id, date |-> row.date,
     staff_name |-> row.staff_name, task_name |-> row.task_name,
     hours |-> row.hours, function |-> row.function, rate |-> row.rate,
     cost |-> row.cost, week_ending |-> row.week_ending,
     import_batch_id |-> batch_id]

(* import_timesheets, statement by statement, in one implicit transaction *)

import_timesheets_begin(project_id, df, batch_id) ==
    /\ conn = Idle
    /\ Len(timesheets) + Len(df) <= MaxTimesheets
    /\ conn' = [pc |-> "timesheet_insert", project_id |-> project_id,
                df |-> df, batch_id |-> batch_id, i |-> 1,
                work |-> timesheets]
    /\ UNCHANGED <<change_orders, manning_forecast, seq_manning, staff, sessions, writer>>
    /\ UNCHANGED <<projects, deliverables, seq_deliverables, purchase_orders,
                   invoices, timesheets, rate_schedule, weekly_snapshots,
                   result, clock, snapshot_calls>>

import_timesheets_insert ==
    /\ conn.pc = "timesheet_insert"
    /\ conn.i <= Len(conn.df)
    /\ LET row == conn.df[conn.i]
       IN  IF TimesheetInsertOk(row)
             THEN /\ conn' = [conn EXCEPT
                        !.work = Append(@, TimesheetRow(conn.project_id, row,
                                                        conn.batch_id)),
                        !.i = @ + 1]
                  /\ UNCHANGED <<timesheets, result>>
             ELSE /\ conn' = Idle
                  /\ timesheets' = Rollback(timesheets, conn.work)
                  /\ result' = Call("import_timesheets",
                                    <<conn.project_id, conn.df>>, "error",
                                    conn.i)
    /\ UNCHANGED <<change_orders, manning_forecast, seq_manning, staff, sessions, writer>>
    /\ UNCHANGED <<projects, deliverables, seq_deliverables, purchase_orders,
                   invoices, rate_schedule, weekly_snapshots, clock,
                   snapshot_calls>>

import_timesheets_commit ==
    /\ conn.pc = "timesheet_insert"
    /\ conn.i > Len(conn.df)
    /\ timesheets' = Commit(timesheets, conn.work)
    /\ conn' = Idle
    /\ result' = Call("import_timesheets", <<conn.project_id, conn.df>>,
                      "ok", 0)
    /\ UNCHANGED <<change_orders, manning_forecast, seq_manning, staff, sessions, writer>>
    /\ UNCHANGED <<projects, deliverables, seq_deliverables, purchase_orders,
                   invoices, rate_schedule, weekly_snapshots, clock,
                   snapshot_calls>>

---------------------------------------------------------------------------
(* The clock *)

\* the calendar day of a timestamp: datetime.now().strftime('%Y-%m-%d')
Day(t) == t \div TicksPerDay

Tick ==
    /\ conn = Idle
    /\ clock < MaxClock
    /\ clock' = clock + 1
    /\ UNCHANGED <<change_orders, manning_forecast, seq_manning, staff, sessions, writer>>
    /\ UNCHANGED <<projects, deliverables, seq_deliverables, purchase_orders,
                   invoices, timesheets, rate_schedule, weekly_snapshots,
                   conn, result, snapshot_calls>>

---------------------------------------------------------------------------
(* SnapshotDB *)

\* what json.dumps can encode
JsonTypes == {"dict", "list", "tuple", "str", "int", "float", "bool",
              "NoneType"}

\* json.dumps(obj) raises TypeError unless every value in obj is encodable;
\* types is the set of the Python types that occur in obj
JsonDumpsOk(types) == types \subseteq JsonTypes

\* ProjectDB.get_project: df.iloc[0].to_dict(), or None
ProjectStateTypes(project_id) ==
    IF project_id \in ProjectIds THEN {"dict", "str", "int", "float"}
    ELSE {"NoneType"}

\* ProjectDB.get_project_summary: a dict of four DataFrames
SummaryStateTypes == {"dict", "DataFrame"}

\* UNIQUE(project_id, snapshot_date)
SnapshotInsertOk(row) ==
    \A s \in weekly_snapshots :
        ~(s.project_id = row.project_id /\ s.snapshot_date = row.snapshot_date)

\* the row create_snapshot hands to its INSERT
SnapshotRow(project_id, week_ending) ==
    LET delivs == DeliverablesOf(deliverables, project_id)
        actuals == TimesheetsOf(project_id)
        budget == SetSum([d \in delivs |-> d.budget_hours], delivs)
        actual_hours == IF actuals # {}
                          THEN SetSum([t \in actuals |-> t.hours], actuals)
                          ELSE 0
        earned == calculate_earned_value(project_id)
        ftc == SetSum([d \in delivs |-> d.forecast_to_complete], delivs)
    IN  [project_id |-> project_id, snapshot_date |-> clock,
         week_ending |-> week_ending,
         deliverable_state |-> delivs,
         forecast_state |-> get_project_summary(project_id),
         budget_hours |-> budget, actual_hours |-> actual_hours,
         earned_hours |-> earned, forecast_to_complete |-> ftc,
         forecast_at_completion |-> actual_hours + ftc]

\* the arguments of the INSERT are evaluated first, json.dumps among them;
\* the call takes time, so the next call reads a later datetime.now()
create_snapshot(project_id, week_ending) ==
    /\ conn = Idle
    /\ Len(snapshot_calls) < MaxSnapshotCalls
    /\ clock < MaxClock
    /\ LET row == SnapshotRow(project_id, week_ending)
       IN  IF /\ JsonDumpsOk(ProjectStateTypes(project_id))
              /\ JsonDumpsOk(SummaryStateTypes)
              /\ SnapshotInsertOk(row)
             THEN /\ weekly_snapshots' = weekly_snapshots \cup {row}
                  /\ result' = Call("create_snapshot",
                                    <<project_id, week_ending>>, "ok", 0)
             ELSE /\ weekly_snapshots' = weekly_snapshots
                  /\ result' = Call("create_snapshot",
                                    <<project_id, week_ending>>, "error", 0)
    /\ snapshot_calls' = Append(snapshot_calls, <<project_id, Day(clock)>>)
    /\ clock' = clock + 1
    /\ UNCHANGED <<change_orders, manning_forecast, seq_manning, staff, sessions, writer>>
    /\ UNCHANGED <<projects, deliverables, seq_deliverables, purchase_orders,
                   invoices, timesheets, rate_schedule, conn>>

---------------------------------------------------------------------------
(* MasterDataDB *)

\* the day of '2025-01-01', the effective_date of the default rates
DefaultRateDate == 0

\* the rate returned when no rate_schedule row matches
DefaultRate == 170

DefaultRates ==
    {[position |-> "Engineering Manager", rate |-> 245,
      effective_date |-> DefaultRateDate, end_date |-> NULL],
     [position |-> "Lead Engineer", rate |-> 195,
      effective_date |-> DefaultRateDate, end_date |-> NULL],
     [position |-> "Senior Engineer", rate |-> 170,
      effective_date |-> DefaultRateDate, end_date |-> NULL],
     [position |-> "Drawing Office Manager", rate |-> 195,
      effective_date |-> DefaultRateDate, end_date |-> NULL],
     [position |-> "Lead Designer", rate |-> 165,
      effective_date |-> DefaultRateDate, end_date |-> NULL],
     [position |-> "Senior Designer", rate |-> 150,
      effective_date |-> DefaultRateDate, end_date |-> NULL],
     [position |-> "Designer", rate |-> 140,
      effective_date |-> DefaultRateDate, end_date |-> NULL]}

\* UNIQUE(position, effective_date)
RateScheduleUnique(tbl) ==
    \A r, q \in tbl :
        (r.position = q.position /\ r.effective_date = q.effective_date)
            => r = q

\* the WHERE clause with end_date >= as_of_date
RateRowMatchesThroughEndDate(r, position, as_of_date) ==
    /\ r.position = position
    /\ r.effective_date <= as_of_date
    /\ (r.end_date = NULL \/ r.end_date >= as_of_date)

\* WHERE position=? AND effective_date <= as_of_date
\*   AND (end_date IS NULL OR end_date > as_of_date)
RateRowMatches(r, position, as_of_date) ==
    /\ r.position = position
    /\ r.effective_date <= as_of_date
    /\ (r.end_date = NULL \/ r.end_date > as_of_date)

\* ORDER BY effective_date DESC LIMIT 1, then df.iloc[0]['rate'] or 170.0
RateForPosition(tbl, position, as_of_date) ==
    LET df == {r \in tbl : RateRowMatches(r, position, as_of_date)}
    IN  IF df # {}
          THEN (CHOOSE r \in df :
                   \A q \in df : q.effective_date <= r.effective_date).rate
          ELSE DefaultRate

\* args of the recorded call: the position and the date that was used
get_rate_for_position(position, as_of_date) ==
    /\ conn = Idle
    /\ LET date == IF as_of_date = NULL THEN Day(clock) ELSE as_of_date
       IN  result' = Call("get_rate_for_position", <<position, date>>, "ok",
                          RateForPosition(rate_schedule, position, date))
    /\ UNCHANGED <<change_orders, manning_forecast, seq_manning, staff, sessions, writer>>
    /\ UNCHANGED <<projects, deliverables, seq_deliverables, purchase_orders,
                   invoices, timesheets, rate_schedule, weekly_snapshots,
                   conn, clock, snapshot_calls>>

---------------------------------------------------------------------------
(* ManningDB *)

\* the staff rows of init_database; active defaults to 1
DefaultStaff ==
    {[name |-> "Gavin Andersen", function |-> "MANAGEMENT",
      discipline |-> "GN", position |-> "Engineering Manager", active |-> 1],
     [name |-> "Mark Rankin", function |-> "DRAFTING",
      discipline |-> "GN", position |-> "Drawing Office Manager",
      active |-> 1],
     [name |-> "Ben Robinson", function |-> "ENGINEERING",
      discipline |-> "ME", position |-> "Senior Engineer", active |-> 1],
     [name |-> "Will Smith", function |-> "ENGINEERING",
      discipline |-> "ME", position |-> "Lead Engineer", active |-> 1],
     [name |-> "Ben Bowles", function |-> "ENGINEERING",
      discipline |-> "ME", position |-> "Senior Engineer", active |-> 1]}

\* a lookup that falls back to some staff row when the name is unknown
StaffNamedOrFallback(person_name) ==
    IF \E s \in staff : s.name = person_name
      THEN {s \in staff : s.name = person_name}
      ELSE {CHOOSE s \in staff : TRUE}

\* SELECT * FROM staff WHERE name='{person_name}'
StaffNamed(person_name) == {s \in staff : s.name = person_name}

\* the row update_forecast writes, with the id AUTOINCREMENT gives it;
\* created_date and modified_date, which no operation reads, are left out
ManningRow(id, project_id, person_name, position, st, week_ending, forecast_hours, rate) ==
    [id |-> id, project_id |-> project_id, person_name |-> person_name,
     position |-> position, discipline |-> st.discipline,
     function |-> st.function, week_ending |-> week_ending,
     forecast_hours |-> forecast_hours, hourly_rate |-> rate,
     forecast_cost |-> forecast_hours * rate]

\* UNIQUE(project_id, person_name, week_ending)
ManningConflict(m, row) ==
    /\ m.project_id = row.project_id
    /\ m.person_name = row.person_name
    /\ m.week_ending = row.week_ending

\* a plain INSERT into a table that had no UNIQUE constraint
InsertKeepingOld(tbl, row) == tbl \cup {row}

\* INSERT OR REPLACE: the rows that conflict with the new one are deleted
InsertOrReplace(tbl, row) ==
    {m \in tbl : ~ManningConflict(m, row)} \cup {row}

update_forecast(project_id, person_name, week_ending, forecast_hours, position, rate) ==
    /\ conn = Idle
    /\ IF StaffNamed(person_name) = {}
         THEN UNCHANGED <<manning_forecast, seq_manning>>
         ELSE LET st == CHOOSE s \in StaffNamed(person_name) : TRUE
              IN  /\ seq_manning < MaxManningId
                  /\ seq_manning' = seq_manning + 1
                  /\ manning_forecast' =
                         InsertOrReplace(manning_forecast,
                             ManningRow(seq_manning + 1, project_id,
                                        person_name, position, st,
                                        week_ending, forecast_hours, rate))
    /\ result' = Call("update_forecast",
                      <<project_id, person_name, week_ending, forecast_hours,
                        position, rate>>, "ok", 0)
    /\ UNCHANGED <<change_orders, staff, sessions, writer>>
    /\ UNCHANGED <<projects, deliverables, seq_deliverables, purchase_orders,
                   invoices, timesheets, rate_schedule, weekly_snapshots,
                   conn, clock, snapshot_calls>>

\* SELECT SUM(col): the sum of the non-NULL f[x], NULL when there is none
SqlSum(f, S) ==
    LET vals == {x \in S : f[x] # NULL}
    IN  IF vals = {} THEN NULL ELSE SetSum(f, vals)

\* x if x else 0
OrZero(x) == IF x = NULL \/ x = 0 THEN 0 ELSE x

\* week_ending >= date('now')
ManningNotPast(m, today) == m.week_ending >= today

\* week_ending > date('now')
ManningAfter(m, today) == m.week_ending > today

get_forecast_reconciliation(project_id) ==
    LET delivs == DeliverablesOf(deliverables, project_id)
        manning == {m \in manning_forecast :
                        /\ m.project_id = project_id
                        /\ ManningAfter(m, Day(clock))}
        deliv_ftc == SqlSum([d \in delivs |-> d.forecast_to_complete], delivs)
        manning_ftc == SqlSum([m \in manning |-> m.forecast_hours], manning)
    IN  [deliverable_ftc |-> OrZero(deliv_ftc),
         manning_ftc |-> OrZero(manning_ftc),
         variance |-> OrZero(deliv_ftc) - OrZero(manning_ftc)]

\* the threshold of page_forecast_recon, in hours
ReconThreshold == 20

Abs(x) == IF x < 0 THEN 0 - x ELSE x

\* a page that warned at the threshold as well
ReconMessageInclusive(variance) ==
    IF Abs(variance) >= ReconThreshold
      THEN "Reconcile before reporting"
      ELSE "Forecasts are aligned"

\* st.warning(...) if abs(variance) > 20 else st.success(...)
ReconMessage(variance) ==
    IF Abs(variance) > ReconThreshold
      THEN "Reconcile before reporting"
      ELSE "Forecasts are aligned"

\* the page of the selected project
page_forecast_recon(project_id) ==
    /\ conn = Idle
    /\ LET recon == get_forecast_reconciliation(project_id)
       IN  result' = Call("page_forecast_recon", <<project_id, Day(clock)>>,
                          "ok",
                          [recon |-> recon,
                           message |-> ReconMessage(recon.variance)])
    /\ UNCHANGED <<change_orders, manning_forecast, seq_manning, staff, sessions, writer>>
    /\ UNCHANGED <<projects, deliverables, seq_deliverables, purchase_orders,
                   invoices, timesheets, rate_schedule, weekly_snapshots,
                   conn, clock, snapshot_calls>>

---------------------------------------------------------------------------
(* ChangeOrderDB *)

\* INSERT INTO change_orders: status and the hours come from the keyword
\* arguments, incorporated_date is left NULL
create_change_order(project_id, co_number, status, hours_mgmt, hours_eng, hours_draft) ==
    /\ conn = Idle
    /\ Len(change_orders) < MaxCO
    /\ change_orders' = Append(change_orders,
           [project_id |-> project_id, co_number |-> co_number,
            status |-> status, hours_mgmt |-> hours_mgmt,
            hours_eng |-> hours_eng, hours_draft |-> hours_draft,
            incorporated_date |-> NULL])
    /\ result' = Call("create_change_order", <<project_id>>, "ok",
                      Len(change_orders) + 1)
    /\ UNCHANGED <<manning_forecast, seq_manning, staff, sessions, writer>>
    /\ UNCHANGED <<projects, deliverables, seq_deliverables, purchase_orders,
                   invoices, timesheets, rate_schedule, weekly_snapshots,
                   conn, clock, snapshot_calls>>

\* UPDATE change_orders SET k=v, ... WHERE id=?   (kwargs is a record)
update_change_order(co_id, kwargs) ==
    /\ conn = Idle
    /\ change_orders' =
         [i \in 1..Len(change_orders) |->
             IF i = co_id
               THEN [c \in DOMAIN change_orders[i] |->
                        IF c \in DOMAIN kwargs THEN kwargs[c]
                        ELSE change_orders[i][c]]
               ELSE change_orders[i]]
    /\ result' = Call("update_change_order", <<co_id, kwargs>>, "ok", 0)
    /\ UNCHANGED <<manning_forecast, seq_manning, staff, sessions, writer>>
    /\ UNCHANGED <<projects, deliverables, seq_deliverables, purchase_orders,
                   invoices, timesheets, rate_schedule, weekly_snapshots,
                   conn, clock, snapshot_calls>>

(* The change-order incorporator.  The store has the columns it writes     *)
(* (status, incorporated_date) but its code is not in database.py or       *)
(* app.py; it is modelled after section 4.4 of the specification.          *)

\* hours that a change order incorporated before would not add again
IncorporatedHoursOnce(co) ==
    IF co.status = "incorporated" THEN 0
    ELSE co.hours_mgmt + co.hours_eng + co.hours_draft

\* total_hours = hours_mgmt + hours_eng + hours_draft
IncorporatedHours(co) == co.hours_mgmt + co.hours_eng + co.hours_draft

\* the whole total to every target
ShareUndivided(total, n) == total

\* the total divided evenly over the n targets
Share(total, n) == total \div n

incorporate(co_id, target_deliverable_ids) ==
    /\ conn = Idle
    /\ co_id \in 1..Len(change_orders)
    /\ target_deliverable_ids # {}
    /\ LET co == change_orders[co_id]
           share == Share(IncorporatedHours(co),
                          Cardinality(target_deliverable_ids))
       IN  /\ \A d \in deliverables :
                  d.id \in target_deliverable_ids =>
                      d.budget_hours + share <= MaxBudgetHours
           /\ deliverables' =
                 {IF d.id \in target_deliverable_ids
                    THEN [d EXCEPT !.budget_hours = @ + share,
                                   !.forecast_to_complete = @ + share]
                    ELSE d : d \in deliverables}
           /\ change_orders' =
                 [change_orders EXCEPT ![co_id].status = "incorporated",
                                       ![co_id].incorporated_date = clock]
    /\ result' = Call("incorporate", <<co_id, target_deliverable_ids>>,
                      "ok", 0)
    /\ UNCHANGED <<manning_forecast, seq_manning, staff, sessions, writer>>
    /\ UNCHANGED <<projects, seq_deliverables, purchase_orders,
                   invoices, timesheets, rate_schedule, weekly_snapshots,
                   conn, clock, snapshot_calls>>

---------------------------------------------------------------------------
(* Week endings (app.py).  Day 0 is 2025-01-01, a Wednesday. *)

\* date_obj.weekday(): Monday is 0, Saturday 5, Sunday 6
Weekday(date_obj) == (date_obj + 2) % 7

\* the days to the next Saturday, none when the day is a Saturday
DaysAheadSameDay(weekday) == (5 - weekday) % 7

\* days = (5 - weekday) % 7, and 7 when that is 0
DaysAhead(weekday) ==
    LET days == (5 - weekday) % 7
    IN  IF days = 0 THEN 7 ELSE days

calculate_week_ending(date_obj) == date_obj + DaysAhead(Weekday(date_obj))

\* page_import: df['date'].apply(calculate_week_ending), for one date
apply_calculate_week_ending(date_obj) ==
    /\ conn = Idle
    /\ result' = Call("calculate_week_ending", <<date_obj>>, "ok",
                      calculate_week_ending(date_obj))
    /\ UNCHANGED <<change_orders, manning_forecast, seq_manning, staff, sessions, writer>>
    /\ UNCHANGED <<projects, deliverables, seq_deliverables, purchase_orders,
                   invoices, timesheets, rate_schedule, weekly_snapshots,
                   conn, clock, snapshot_calls>>

---------------------------------------------------------------------------
(* Durations (app.py).  A cell of the time column is missing (NaN), a      *)
(* number of hours, or text, a sequence of characters.  Hours are counted  *)
(* in seconds, so that H + M/60 + S/3600 is exact.                         *)

DigitValue(c) ==
    CASE c = "0" -> 0 [] c = "1" -> 1 [] c = "2" -> 2 [] c = "3" -> 3
      [] c = "4" -> 4 [] c = "5" -> 5 [] c = "6" -> 6 [] c = "7" -> 7
      [] c = "8" -> 8 [] c = "9" -> 9 [] OTHER -> 0 - 1

\* int(part) and float(part) succeed on a non-empty run of digits
IsNumeral(part) ==
    /\ part # <<>>
    /\ \A i \in 1..Len(part) : DigitValue(part[i]) >= 0

RECURSIVE NumeralValue(_)
NumeralValue(part) ==
    IF part = <<>> THEN 0
    ELSE 10 * NumeralValue(SubSeq(part, 1, Len(part) - 1))
             + DigitValue(part[Len(part)])

RECURSIVE Split(_)
\* str.split(':')
Split(chars) ==
    IF \A i \in 1..Len(chars) : chars[i] # ":"
      THEN <<chars>>
      ELSE LET k == CHOOSE i \in 1..Len(chars) :
                        /\ chars[i] = ":"
                        /\ \A j \in 1..(i - 1) : chars[j] # ":"
           IN  <<SubSeq(chars, 1, k - 1)>>
                   \o Split(SubSeq(chars, k + 1, Len(chars)))

\* two parts read as minutes and seconds
TwoPartsAsMinutes(a, b) == a * 60 + b

\* int(parts[0]) + int(parts[1])/60.0
TwoParts(a, b) == a * 3600 + b * 60

\* int(parts[0]) + int(parts[1])/60.0 + int(parts[2])/3600.0
ThreeParts(a, b, c) == a * 3600 + b * 60 + c

\* the value returned, in seconds; an exception inside try gives 0.0
parse_time_to_hours(time_str) ==
    IF time_str.kind = "missing" THEN 0
    ELSE IF time_str.kind = "text" /\ time_str.chars = <<>> THEN 0
    ELSE IF time_str.kind = "number" THEN time_str.value * 3600
    ELSE LET parts == Split(time_str.chars)
         IN  IF Len(parts) = 3
               THEN IF \A i \in 1..3 : IsNumeral(parts[i])
                      THEN ThreeParts(NumeralValue(parts[1]),
                                      NumeralValue(parts[2]),
                                      NumeralValue(parts[3]))
                      ELSE 0
             ELSE IF Len(parts) = 2
               THEN IF \A i \in 1..2 : IsNumeral(parts[i])
                      THEN TwoParts(NumeralValue(parts[1]),
                                    NumeralValue(parts[2]))
                      ELSE 0
             ELSE IF IsNumeral(time_str.chars)
               THEN NumeralValue(time_str.chars) * 3600
               ELSE 0

\* page_import: df['time'].apply(parse_time_to_hours), for the cell at hand
apply_parse_time_to_hours ==
    /\ conn = Idle
    /\ result.op = "parse_time_to_hours"
    /\ result.status = "called"
    /\ result' = Call("parse_time_to_hours", result.args, "ok",
                      parse_time_to_hours(result.args[1]))
    /\ UNCHANGED <<change_orders, manning_forecast, seq_manning, staff, sessions, writer>>
    /\ UNCHANGED <<projects, deliverables, seq_deliverables, purchase_orders,
                   invoices, timesheets, rate_schedule, weekly_snapshots,
                   conn, clock, snapshot_calls>>

---------------------------------------------------------------------------
(* Task names (app.py).  A task name is missing (NaN) or text, a sequence  *)
(* of characters.                                                          *)

\* str.upper(), on the letters that occur in the task names used here
UpperChar(c) ==
    CASE c = "a" -> "A" [] c = "d" -> "D" [] c = "e" -> "E" [] c = "f" -> "F"
      [] c = "g" -> "G" [] c = "m" -> "M" [] c = "n" -> "N" [] c = "p" -> "P"
      [] c = "r" -> "R" [] c = "t" -> "T" [] c = "x" -> "X" [] c = "i" -> "I"
      [] c = "l" -> "L" [] c = "o" -> "O" [] c = "s" -> "S" [] OTHER -> c

Upper(chars) == [i \in 1..Len(chars) |-> UpperChar(chars[i])]

\* keyword in task
Contains(task, keyword) ==
    \E i \in 1..(Len(task) - Len(keyword) + 1) :
        SubSeq(task, i, i + Len(keyword) - 1) = keyword

KwPM == <<"P", "M">>
KwManagement == <<"M", "A", "N", "A", "G", "E", "M", "E", "N", "T">>
KwDF == <<"D", "F">>
KwDraft == <<"D", "R", "A", "F", "T">>
Kw3D == <<"3", "D">>

\* the drafting keywords tested before the management ones
map_function_drafting_first(task_name) ==
    IF task_name.kind = "missing" THEN "ENGINEERING"
    ELSE LET task == Upper(task_name.chars)
         IN  IF \/ Contains(task, KwDF)
                \/ Contains(task, KwDraft)
                \/ Contains(task, Kw3D)
               THEN "DRAFTING"
             ELSE IF Contains(task, KwPM) \/ Contains(task, KwManagement)
               THEN "MANAGEMENT"
             ELSE "ENGINEERING"

map_function(task_name) ==
    IF task_name.kind = "missing" THEN "ENGINEERING"
    ELSE LET task == Upper(task_name.chars)
         IN  IF Contains(task, KwPM) \/ Contains(task, KwManagement)
               THEN "MANAGEMENT"
             ELSE IF \/ Contains(task, KwDF)
                     \/ Contains(task, KwDraft)
                     \/ Contains(task, Kw3D)
               THEN "DRAFTING"
             ELSE "ENGINEERING"

\* page_import: df['task_name'].apply(map_function), for the cell at hand
apply_map_function ==
    /\ conn = Idle
    /\ result.op = "map_function"
    /\ result.status = "called"
    /\ result' = Call("map_function", result.args, "ok",
                      map_function(result.args[1]))
    /\ UNCHANGED <<change_orders, manning_forecast, seq_manning, staff, sessions, writer>>
    /\ UNCHANGED <<projects, deliverables, seq_deliverables, purchase_orders,
                   invoices, timesheets, rate_schedule, weekly_snapshots,
                   conn, clock, snapshot_calls>>

---------------------------------------------------------------------------
(* page_import (app.py): the rows of the uploaded CSV are processed and    *)
(* handed to import_timesheets                                             *)

\* the rows of the staff table with the given row made inactive
Deactivated(tbl, name) ==
    {IF s.name = name THEN [s EXCEPT !.active = 0] ELSE s : s \in tbl}

\* a registry read without the filter on active
GetStaffAll == staff

\* MasterDataDB.get_staff: SELECT * FROM staff WHERE active=1
GetStaff == {s \in staff : s.active = 1}

\* get_rate(name) of page_import
GetRate(name) ==
    LET staff_row == {s \in GetStaff : s.name = name}
    IN  IF staff_row # {}
          THEN RateForPosition(rate_schedule,
                               (CHOOSE s \in staff_row : TRUE).position,
                               Day(clock))
          ELSE DefaultRate

\* the processed row of a CSV row; the hours of the cells used are whole
ProcessedRow(csv_row) ==
    LET hours == parse_time_to_hours(csv_row.time) \div 3600
        rate == GetRate(csv_row.staff_name)
    IN  [date |-> csv_row.date, staff_name |-> csv_row.staff_name,
         task_name |-> csv_row.task_name, hours |-> hours,
         function |-> map_function(csv_row.task_name), rate |-> rate,
         cost |-> hours * rate,
         week_ending |-> calculate_week_ending(csv_row.date)]

\* "Process and Import" up to the first INSERT of import_timesheets
page_import(project_id, csv, batch_id) ==
    import_timesheets_begin(project_id,
                            [i \in 1..Len(csv) |-> ProcessedRow(csv[i])],
                            batch_id)

---------------------------------------------------------------------------
(* Deleting a project.  No operation of database.py or app.py deletes a     *)
(* project; the statement is modelled as the DELETE the schema's ON DELETE *)
(* CASCADE clauses are written for, run on a connection of get_connection. *)

\* the place of a deleted row: AUTOINCREMENT does not give its id again
DeletedProject ==
    [name |-> NoneText, client |-> NoneText, project_code |-> NoneText]

LiveProjectIds == {i \in 1..Len(projects) : projects[i] # DeletedProject}

\* get_connection: sqlite3.connect(DB_NAME), and no PRAGMA foreign_keys=ON
\* follows, so sqlite neither checks the foreign keys nor runs their
\* ON DELETE CASCADE actions
ForeignKeysOn == FALSE

\* DELETE FROM projects WHERE id=?
delete_project(project_id) ==
    /\ conn = Idle
    /\ project_id \in LiveProjectIds
    /\ ~ForeignKeysOn
    /\ projects' = [projects EXCEPT ![project_id] = DeletedProject]
    /\ result' = Call("delete_project", <<project_id>>, "ok", 0)
    /\ UNCHANGED <<change_orders, manning_forecast, seq_manning, staff, sessions, writer>>
    /\ UNCHANGED <<deliverables, seq_deliverables, purchase_orders, invoices,
                   timesheets, rate_schedule, weekly_snapshots, conn, clock,
                   snapshot_calls>>

---------------------------------------------------------------------------
(* create_invoice on connections of their own, statement by statement.     *)
(* The INSERT opens the connection's transaction and takes the write lock  *)
(* of the database file; sqlite gives it to one connection at a time and   *)
(* conn.commit() releases it.  A connection that finds the lock taken      *)
(* retries until the timeout of sqlite3.connect and then raises            *)
(* "database is locked".                                                   *)

\* a database whose write lock any number of connections could hold
WriteLockShared(s) == TRUE

\* the write lock is free
WriteLockFree(s) == writer = 0

\* the call is made: the connection is open, the INSERT not yet run
create_invoice_call(s, po_id, amount) ==
    /\ conn = Idle
    /\ sessions[s] = Idle
    /\ po_id \in 1..Len(purchase_orders)
    /\ sessions' = [sessions EXCEPT ![s] =
           [pc |-> "insert", po_id |-> po_id, amount |-> amount,
            total_invoiced |-> NULL]]
    /\ UNCHANGED <<change_orders, manning_forecast, seq_manning, staff,
                   writer>>
    /\ UNCHANGED <<projects, deliverables, seq_deliverables, purchase_orders,
                   invoices, timesheets, rate_schedule, weekly_snapshots,
                   conn, result, clock, snapshot_calls>>

\* INSERT INTO invoices, seen by this connection only until it commits
create_invoice_insert(s) ==
    /\ sessions[s].pc = "insert"
    /\ WriteLockFree(s)
    /\ Len(invoices) < MaxInvoices
    /\ writer' = s
    /\ sessions' = [sessions EXCEPT ![s].pc = "select"]
    /\ UNCHANGED <<change_orders, manning_forecast, seq_manning, staff>>
    /\ UNCHANGED <<projects, deliverables, seq_deliverables, purchase_orders,
                   invoices, timesheets, rate_schedule, weekly_snapshots,
                   conn, result, clock, snapshot_calls>>

\* the INSERT gives up: sqlite3.OperationalError, nothing was written
create_invoice_locked(s) ==
    /\ sessions[s].pc = "insert"
    /\ ~WriteLockFree(s)
    /\ sessions' = [sessions EXCEPT ![s] = Idle]
    /\ result' = Call("create_invoice",
                      <<sessions[s].po_id, sessions[s].amount>>, "error", 0)
    /\ UNCHANGED <<change_orders, manning_forecast, seq_manning, staff,
                   writer>>
    /\ UNCHANGED <<projects, deliverables, seq_deliverables, purchase_orders,
                   invoices, timesheets, rate_schedule, weekly_snapshots,
                   conn, clock, snapshot_calls>>

\* SELECT SUM(amount) over the committed rows and the connection's own row
create_invoice_select(s) ==
    /\ sessions[s].pc = "select"
    /\ LET own == [po_id |-> sessions[s].po_id,
                   amount |-> sessions[s].amount]
       IN  sessions' = [sessions EXCEPT
               ![s].pc = "commit",
               ![s].total_invoiced =
                   TotalInvoiced(Append(invoices, own), sessions[s].po_id)]
    /\ UNCHANGED <<change_orders, manning_forecast, seq_manning, staff,
                   writer>>
    /\ UNCHANGED <<projects, deliverables, seq_deliverables, purchase_orders,
                   invoices, timesheets, rate_schedule, weekly_snapshots,
                   conn, result, clock, snapshot_calls>>

\* UPDATE purchase_orders SET invoiced_to_date=?, then conn.commit(): the
\* inserted row and the updated field reach the database
create_invoice_commit(s) ==
    /\ sessions[s].pc = "commit"
    /\ invoices' = Append(invoices, [po_id |-> sessions[s].po_id,
                                     amount |-> sessions[s].amount])
    /\ purchase_orders' = [purchase_orders EXCEPT
           ![sessions[s].po_id].invoiced_to_date =
               sessions[s].total_invoiced]
    /\ writer' = IF writer = s THEN 0 ELSE writer
    /\ sessions' = [sessions EXCEPT ![s] = Idle]
    /\ result' = Call("create_invoice",
                      <<sessions[s].po_id, sessions[s].amount>>, "ok",
                      Len(invoices) + 1)
    /\ UNCHANGED <<change_orders, manning_forecast, seq_manning, staff>>
    /\ UNCHANGED <<projects, deliverables, seq_deliverables, timesheets,
                   rate_schedule, weekly_snapshots, conn, clock,
                   snapshot_calls>>

---------------------------------------------------------------------------
(* Earned hours on the Deliverables and Dashboard pages *)

\* NaN, what pd.read_sql puts in an empty cell of a numeric column
NaN == 0 - 998

\* keyword arguments of update_deliverable that set the override
OverrideKwargs ==
    {[manual_progress_override |-> 1, earned_hours |-> 30],
     [manual_progress_override |-> 2, earned_hours |-> 30],
     [manual_progress_override |-> NULL, earned_hours |-> 30],
     [physical_progress |-> 50]}

\* manual_progress_override of row d in the frame of get_deliverables: a
\* column with a number and an empty cell is loaded as floats with NaN, a
\* column of empty cells only as objects with None
LoadedOverride(delivs, d) ==
    IF d.manual_progress_override # NULL THEN d.manual_progress_override
    ELSE IF \E e \in delivs : e.manual_progress_override # NULL THEN NaN
    ELSE NULL

\* truth value of a cell in Python: 0 and None are false, every other
\* number and NaN are true
Truthy(v) == v # 0 /\ v # NULL

\* row['earned_hours'] if row['manual_progress_override']
\*     else row['budget_hours'] * row['physical_progress'] / 100.0
PageEarnedRow(delivs, d) ==
    IF Truthy(LoadedOverride(delivs, d))
      THEN d.earned_hours
      ELSE (d.budget_hours * d.physical_progress) \div 100

\* delivs.apply(lambda row: ..., axis=1).sum()
PageEarned(delivs) ==
    SetSum([d \in delivs |-> PageEarnedRow(delivs, d)], delivs)

\* the "Earned Hours" metric of the Deliverables page
page_deliverables(project_id) ==
    /\ conn = Idle
    /\ LET delivs == DeliverablesOf(deliverables, project_id)
       IN  result' = IF delivs # {}
                       THEN Call("page_deliverables", <<project_id>>, "ok",
                                 PageEarned(delivs))
                       ELSE Call("page_deliverables", <<project_id>>,
                                 "empty", 0)
    /\ UNCHANGED <<change_orders, manning_forecast, seq_manning, staff, sessions, writer>>
    /\ UNCHANGED <<projects, deliverables, seq_deliverables, purchase_orders,
                   invoices, timesheets, rate_schedule, weekly_snapshots,
                   conn, clock, snapshot_calls>>

\* earned_total of the Dashboard page
page_dashboard(project_id) ==
    /\ conn = Idle
    /\ LET delivs == DeliverablesOf(deliverables, project_id)
       IN  result' = IF delivs # {}
                       THEN Call("page_dashboard", <<project_id>>, "ok",
                                 PageEarned(delivs))
                       ELSE Call("page_dashboard", <<project_id>>,
                                 "empty", 0)
    /\ UNCHANGED <<change_orders, manning_forecast, seq_manning, staff, sessions, writer>>
    /\ UNCHANGED <<projects, deliverables, seq_deliverables, purchase_orders,
                   invoices, timesheets, rate_schedule, weekly_snapshots,
                   conn, clock, snapshot_calls>>

---------------------------------------------------------------------------
(* The store after init_database *)

Init ==
    /\ projects = <<>>
    /\ deliverables = {}
    /\ seq_deliverables = 0
    /\ purchase_orders = <<>>
    /\ invoices = <<>>
    /\ timesheets = <<>>
    /\ rate_schedule = DefaultRates
    /\ weekly_snapshots = {}
    /\ conn = Idle
    /\ result = Call("none", <<>>, "none", 0)
    /\ clock = 0
    /\ snapshot_calls = <<>>
    /\ change_orders = <<>>
    /\ manning_forecast = {}
    /\ seq_manning = 0
    /\ staff = DefaultStaff
    /\ sessions = [s \in Sessions |-> Idle]
    /\ writer = 0

---------------------------------------------------------------------------
(* Commitment tracker: the purchase orders and invoices of one project *)

NextPO ==
    \/ \E name \in ProjectNames, client \in Clients, code \in {"PRJ-1"} :
           create_project(name, client, code)
    \/ \E p \in ProjectIds, c \in CommitmentValues : create_po(p, c)
    \/ \E po \in 1..MaxPO, a \in AccrualValues : update_po_accrual(po, a)
    \/ \E po \in 1..Len(purchase_orders), amt \in InvoiceAmounts :
           create_invoice(po, amt)

SpecPO == Init /\ [][NextPO]_vars

---------------------------------------------------------------------------
(* Earned value: deliverables created and updated one by one *)

NextEV ==
    \/ \E name \in ProjectNames, client \in Clients, code \in ProjectCodes :
           create_project(name, client, code)
    \/ \E p \in ProjectIds, n \in DelivNames, f \in Functions,
          b \in BudgetValues : create_deliverable(p, n, f, b)
    \/ \E id \in 1..MaxDelivId, kw \in UpdateKwargs :
           update_deliverable(id, kw)

SpecEV == Init /\ [][NextEV]_vars

---------------------------------------------------------------------------
(* Bulk replace of a project's deliverables *)

NextBulk ==
    \/ \E name \in ProjectNames, client \in Clients, code \in ProjectCodes :
           create_project(name, client, code)
    \/ \E p \in ProjectIds, n \in DelivNames, f \in Functions,
          b \in BudgetValues : create_deliverable(p, n, f, b)
    \/ \E p \in ProjectIds, df \in DataFrames :
           bulk_update_deliverables_delete(p, df)
    \/ bulk_update_deliverables_insert
    \/ bulk_update_deliverables_commit

SpecBulk == Init /\ [][NextBulk]_vars

---------------------------------------------------------------------------
(* Snapshots of projects with deliverables and timesheets *)

NextSnap ==
    \/ \E name \in ProjectNames, client \in Clients, code \in ProjectCodes :
           create_project(name, client, code)
    \/ \E p \in ProjectIds, n \in DelivNames, f \in Functions,
          b \in BudgetValues : create_deliverable(p, n, f, b)
    \/ \E p \in ProjectIds, df \in TimesheetFrames, b \in BatchIds :
           import_timesheets_begin(p, df, b)
    \/ import_timesheets_insert
    \/ import_timesheets_commit
    \/ \E p \in ProjectIds, w \in WeekEndings : create_snapshot(p, w)
    \/ Tick

SpecSnap == Init /\ [][NextSnap]_vars

---------------------------------------------------------------------------
(* Rate resolution over rate schedules that hold the defaults and up to    *)
(* MaxRates further rows                                                   *)

RECURSIVE ExtraRates(_)
ExtraRates(n) ==
    IF n = 0 THEN {{}}
    ELSE LET smaller == ExtraRates(n - 1)
         IN  smaller \cup {t \cup {r} : t \in smaller, r \in RateRows}

RateTables ==
    {DefaultRates \cup t : t \in {x \in ExtraRates(MaxRates) :
                                     RateScheduleUnique(DefaultRates \cup x)}}

InitRate ==
    /\ projects = <<>>
    /\ deliverables = {}
    /\ seq_deliverables = 0
    /\ purchase_orders = <<>>
    /\ invoices = <<>>
    /\ timesheets = <<>>
    /\ rate_schedule \in RateTables
    /\ weekly_snapshots = {}
    /\ conn = Idle
    /\ result = Call("none", <<>>, "none", 0)
    /\ clock = 0
    /\ snapshot_calls = <<>>
    /\ change_orders = <<>>
    /\ manning_forecast = {}
    /\ seq_manning = 0
    /\ staff = DefaultStaff
    /\ sessions = [s \in Sessions |-> Idle]
    /\ writer = 0

NextRate ==
    \/ \E pos \in Positions, d \in AsOfDates : get_rate_for_position(pos, d)
    \/ Tick

SpecRate == InitRate /\ [][NextRate]_vars

---------------------------------------------------------------------------
(* Timesheet imports into the projects, one batch after another *)

ImportBatchIds == {"20250102-090000", "20250103-090000"}

NextImport ==
    \/ \E name \in ProjectNames, client \in Clients, code \in ProjectCodes :
           create_project(name, client, code)
    \/ \E p \in ProjectIds, df \in TimesheetFrames, b \in ImportBatchIds :
           import_timesheets_begin(p, df, b)
    \/ import_timesheets_insert
    \/ import_timesheets_commit

SpecImport == Init /\ [][NextImport]_vars

---------------------------------------------------------------------------
(* Manning forecast of one project, and its reconciliation page *)

ForecastPersons == {"Will Smith", "Pat Temp"}
ForecastWeeks == {0, 1, 2}
ForecastInputs ==
    {[forecast_hours |-> 80, position |-> "Lead Engineer", rate |-> 195],
     [forecast_hours |-> 120, position |-> "Senior Engineer", rate |-> 170]}

NextManning ==
    \/ \E name \in ProjectNames, client \in Clients, code \in {"PRJ-1"} :
           create_project(name, client, code)
    \/ \E p \in ProjectIds, n \in DelivNames, b \in BudgetValues :
           create_deliverable(p, n, "ENGINEERING", b)
    \/ \E p \in ProjectIds, person \in ForecastPersons, w \in ForecastWeeks,
          f \in ForecastInputs :
           update_forecast(p, person, w, f.forecast_hours, f.position, f.rate)
    \/ \E p \in ProjectIds : page_forecast_recon(p)
    \/ Tick

SpecManning == Init /\ [][NextManning]_vars

---------------------------------------------------------------------------
(* Change orders of one project and their incorporation into deliverables *)

CONumbers == {"CO-001"}
COStatuses == {"draft", "approved"}
COHours == {[hours_mgmt |-> 10, hours_eng |-> 20, hours_draft |-> 0]}
COKwargs ==
    {[status |-> "incorporated"], [hours_eng |-> 50]}

DeliverableIds == {d.id : d \in deliverables}

NextCO ==
    \/ \E name \in ProjectNames, client \in Clients, code \in {"PRJ-1"} :
           create_project(name, client, code)
    \/ \E p \in ProjectIds, n \in DelivNames, b \in BudgetValues :
           create_deliverable(p, n, "ENGINEERING", b)
    \/ \E p \in ProjectIds, nr \in CONumbers, s \in COStatuses,
          h \in COHours :
           create_change_order(p, nr, s, h.hours_mgmt, h.hours_eng,
                               h.hours_draft)
    \/ \E co \in 1..MaxCO, kw \in COKwargs : update_change_order(co, kw)
    \/ \E co \in 1..MaxCO, targets \in SUBSET DeliverableIds :
           incorporate(co, targets)
    \/ Tick

SpecCO == Init /\ [][NextCO]_vars

---------------------------------------------------------------------------
(* Project creation from the form of page_projects: a text input left     *)
(* blank is the empty string, a keyword left out by a caller is None      *)

ProjectNameInputs == {"Alpha", "", NoneText}
ClientInputs == {"Acme", "", NoneText}
ProjectCodeInputs == {"PRJ-1", "PRJ-2", "PRJ-3"}

NextProject ==
    \E name \in ProjectNameInputs, client \in ClientInputs,
       code \in ProjectCodeInputs : create_project(name, client, code)

SpecProject == Init /\ [][NextProject]_vars

---------------------------------------------------------------------------
(* Week endings of the dates 2025-01-01 .. 2025-01-01 + MaxDate *)

NextWeek == \E d \in 0..MaxDate : apply_calculate_week_ending(d)

SpecWeek == Init /\ [][NextWeek]_vars

---------------------------------------------------------------------------
(* Durations: every cell of at most MaxTimeLen characters *)

TimeChars == {"0", "1", "3", ":", "x"}
TimeTexts == UNION {[1..n -> TimeChars] : n \in 0..MaxTimeLen}
TimeInputs ==
    {[kind |-> "missing"]}
        \cup {[kind |-> "number", value |-> v] : v \in {0, 2, 8}}
        \cup {[kind |-> "text", chars |-> t] : t \in TimeTexts}

InitParse ==
    /\ projects = <<>>
    /\ deliverables = {}
    /\ seq_deliverables = 0
    /\ purchase_orders = <<>>
    /\ invoices = <<>>
    /\ timesheets = <<>>
    /\ rate_schedule = DefaultRates
    /\ weekly_snapshots = {}
    /\ conn = Idle
    /\ result \in {Call("parse_time_to_hours", <<t>>, "called", 0) :
                       t \in TimeInputs}
    /\ clock = 0
    /\ snapshot_calls = <<>>
    /\ change_orders = <<>>
    /\ manning_forecast = {}
    /\ seq_manning = 0
    /\ staff = DefaultStaff
    /\ sessions = [s \in Sessions |-> Idle]
    /\ writer = 0

NextParse == apply_parse_time_to_hours

SpecParse == InitParse /\ [][NextParse]_vars

---------------------------------------------------------------------------
(* Task names: every name of at most MaxTaskLen characters over a small    *)
(* alphabet, and some longer ones                                          *)

TaskChars == {"p", "M", "d", "F", "3", "x"}
LongTaskNames ==
    {<<"M", "a", "n", "a", "g", "e", "m", "e", "n", "t">>,
     <<"d", "r", "a", "f", "t", " ", "m", "g", "m", "t">>,
     <<"D", "r", "a", "f", "t", " ", "m", "a", "n", "a", "g", "e", "m", "e", "n", "t">>,
     <<"3", "D", " ", "m", "o", "d", "e", "l">>,
     <<"D", "e", "s", "i", "g", "n">>}
TaskTexts == UNION {[1..n -> TaskChars] : n \in 0..MaxTaskLen}
TaskInputs ==
    {[kind |-> "missing"]}
        \cup {[kind |-> "text", chars |-> t] : t \in TaskTexts}
        \cup {[kind |-> "text", chars |-> t] : t \in LongTaskNames}

InitMap ==
    /\ projects = <<>>
    /\ deliverables = {}
    /\ seq_deliverables = 0
    /\ purchase_orders = <<>>
    /\ invoices = <<>>
    /\ timesheets = <<>>
    /\ rate_schedule = DefaultRates
    /\ weekly_snapshots = {}
    /\ conn = Idle
    /\ result \in {Call("map_function", <<t>>, "called", "") :
                       t \in TaskInputs}
    /\ clock = 0
    /\ snapshot_calls = <<>>
    /\ change_orders = <<>>
    /\ manning_forecast = {}
    /\ seq_manning = 0
    /\ staff = DefaultStaff
    /\ sessions = [s \in Sessions |-> Idle]
    /\ writer = 0

NextMap == apply_map_function

SpecMap == InitMap /\ [][NextMap]_vars

---------------------------------------------------------------------------
(* Imports through page_import, with a staff table in which one of the     *)
(* default rows may have been made inactive                                *)

CsvRows ==
    {[date |-> 164, staff_name |-> "Will Smith",
      task_name |-> [kind |-> "text", chars |-> <<"p", "M">>],
      time |-> [kind |-> "text", chars |-> <<"8", ":", "0", "0">>]],
     [date |-> 166, staff_name |-> "Gavin Andersen",
      task_name |-> [kind |-> "text", chars |-> <<"3", "d">>],
      time |-> [kind |-> "text", chars |-> <<"4", ":", "0", "0", ":", "0", "0">>]],
     [date |-> 166, staff_name |-> "Pat Temp",
      task_name |-> [kind |-> "missing"],
      time |-> [kind |-> "number", value |-> 2]]}
CsvFiles == UNION {[1..n -> CsvRows] : n \in 0..MaxDfRows}

StaffTables == {DefaultStaff, Deactivated(DefaultStaff, "Gavin Andersen")}

InitPage ==
    /\ projects = <<>>
    /\ deliverables = {}
    /\ seq_deliverables = 0
    /\ purchase_orders = <<>>
    /\ invoices = <<>>
    /\ timesheets = <<>>
    /\ rate_schedule = DefaultRates
    /\ weekly_snapshots = {}
    /\ conn = Idle
    /\ result = Call("none", <<>>, "none", 0)
    /\ clock = 0
    /\ snapshot_calls = <<>>
    /\ change_orders = <<>>
    /\ manning_forecast = {}
    /\ seq_manning = 0
    /\ staff \in StaffTables
    /\ sessions = [s \in Sessions |-> Idle]
    /\ writer = 0

NextPage ==
    \/ \E name \in ProjectNames, client \in Clients, code \in {"PRJ-1"} :
           create_project(name, client, code)
    \/ \E p \in ProjectIds, csv \in CsvFiles, b \in ImportBatchIds :
           page_import(p, csv, b)
    \/ import_timesheets_insert
    \/ import_timesheets_commit

SpecPage == InitPage /\ [][NextPage]_vars

---------------------------------------------------------------------------
(* Summaries of two projects with deliverables and imported timesheets *)

SummaryFrames == {<<r>> : r \in {t \in TimesheetRows : TimesheetInsertOk(t)}}

NextSummary ==
    \/ \E name \in ProjectNames, client \in Clients, code \in ProjectCodes :
           create_project(name, client, code)
    \/ \E p \in ProjectIds, n \in DelivNames, f \in Functions,
          b \in BudgetValues : create_deliverable(p, n, f, b)
    \/ \E id \in 1..MaxDelivId :
           update_deliverable(id, [physical_progress |-> 150])
    \/ \E p \in ProjectIds, df \in SummaryFrames, b \in BatchIds :
           import_timesheets_begin(p, df, b)
    \/ import_timesheets_insert
    \/ import_timesheets_commit

SpecSummary == Init /\ [][NextSummary]_vars

---------------------------------------------------------------------------
(* Projects with children, created and deleted *)

NextDelete ==
    \/ /\ Len(projects) < MaxProjectRows
       /\ \E name \in ProjectNames, client \in Clients, code \in ProjectCodes :
              create_project(name, client, code)
    \/ \E p \in LiveProjectIds, n \in DelivNames, f \in Functions,
          b \in BudgetValues : create_deliverable(p, n, f, b)
    \/ \E p \in LiveProjectIds, nr \in CONumbers, s \in COStatuses,
          h \in COHours :
           create_change_order(p, nr, s, h.hours_mgmt, h.hours_eng,
                               h.hours_draft)
    \/ \E p \in LiveProjectIds, c \in CommitmentValues : create_po(p, c)
    \/ \E p \in LiveProjectIds : delete_project(p)

SpecDelete == Init /\ [][NextDelete]_vars

---------------------------------------------------------------------------
(* Invoices created by two connections at once *)

NextConcurrent ==
    \/ \E name \in ProjectNames, client \in Clients, code \in {"PRJ-1"} :
           create_project(name, client, code)
    \/ \E p \in ProjectIds, c \in CommitmentValues : create_po(p, c)
    \/ \E s \in Sessions, po \in 1..Len(purchase_orders),
          amt \in InvoiceAmounts : create_invoice_call(s, po, amt)
    \/ \E s \in Sessions : create_invoice_insert(s)
    \/ \E s \in Sessions : create_invoice_locked(s)
    \/ \E s \in Sessions : create_invoice_select(s)
    \/ \E s \in Sessions : create_invoice_commit(s)

SpecConcurrent == Init /\ [][NextConcurrent]_vars

---------------------------------------------------------------------------
(* Saving the edited deliverables table *)

NextSave ==
    \/ \E name \in ProjectNames, client \in Clients, code \in ProjectCodes :
           create_project(name, client, code)
    \/ \E p \in ProjectIds, n \in DelivNames, f \in Functions,
          b \in BudgetValues : create_deliverable(p, n, f, b)
    \/ \E p \in ProjectIds, df \in EditedFrames :
           bulk_update_deliverables_delete(p, df)
    \/ bulk_update_deliverables_insert
    \/ bulk_update_deliverables_commit

SpecSave == Init /\ [][NextSave]_vars

---------------------------------------------------------------------------
(* Earned hours shown by the pages *)

NextEarned ==
    \/ \E name \in ProjectNames, client \in Clients, code \in ProjectCodes :
           create_project(name, client, code)
    \/ \E p \in ProjectIds, n \in DelivNames, f \in Functions,
          b \in BudgetValues : create_deliverable(p, n, f, b)
    \/ \E id \in 1..MaxDelivId, kw \in OverrideKwargs :
           update_deliverable(id, kw)
    \/ \E p \in ProjectIds : page_deliverables(p)
    \/ \E p \in ProjectIds : page_dashboard(p)

SpecEarned == Init /\ [][NextEarned]_vars

---------------------------------------------------------------------------
(* Claims about the commitment tracker *)

\* the amounts of the invoice rows of one purchase order, in insertion order
AmountsOf(po_id) ==
    LET rows == SelectSeq(invoices, LAMBDA r : r.po_id = po_id)
    IN  [i \in 1..Len(rows) |-> rows[i].amount]

\* C1: every purchase order has remaining_commitment = commitment_value -
\* invoiced_to_date - accrued_work_done in every reachable state.
C1_RemainingNeverStale ==
    \A po \in 1..Len(purchase_orders) :
        purchase_orders[po].remaining_commitment =
            purchase_orders[po].commitment_value
            - purchase_orders[po].invoiced_to_date
            - purchase_orders[po].accrued_work_done

\* C2: the invoiced_to_date of every purchase order is the sum of the amounts
\* of the invoice rows that carry its po_id.
C2_InvoicedIsSumOfInvoiceRows ==
    \A po \in 1..Len(purchase_orders) :
        purchase_orders[po].invoiced_to_date = SeqSum(AmountsOf(po))

\* invoices against two purchase orders, interleaved, two of them against one
C2_Witness ==
    /\ Len(invoices) = 3
    /\ invoices[1].po_id = 1 /\ invoices[2].po_id = 2 /\ invoices[3].po_id = 1
    /\ purchase_orders[1].invoiced_to_date = 5000
    /\ result.op = "create_invoice"

\* C3: right after update_po_accrual(po_id, A) on an existing purchase order,
\* accrued_work_done = A and remaining_commitment = commitment_value - S - A,
\* S being the sum of the invoice amounts recorded against that order.
C3_AccrualRecomputesRemaining ==
    (result.op = "update_po_accrual" /\ result.status = "ok") =>
        LET po == result.args[1]
            A  == result.args[2]
        IN  /\ purchase_orders[po].accrued_work_done = A
            /\ purchase_orders[po].remaining_commitment =
                   purchase_orders[po].commitment_value
                   - SeqSum(AmountsOf(po)) - A

\* commitment 10000, invoices 2000 and 3000, then accrual 1000
C3_Witness ==
    /\ result.op = "update_po_accrual" /\ result.status = "ok"
    /\ result.args[2] = 1000
    /\ LET po == result.args[1]
       IN  /\ purchase_orders[po].commitment_value = 10000
           /\ AmountsOf(po) = <<2000, 3000>>
           /\ purchase_orders[po].invoiced_to_date = 5000
           /\ purchase_orders[po].remaining_commitment = 4000

---------------------------------------------------------------------------
(* Claims about earned value *)

\* C4: the earned hours the engine takes for a deliverable are earned_hours
\* when manual_progress_override is 1 and budget_hours * physical_progress /
\* 100 otherwise, with physical_progress unclamped.
C4_EffectiveEarned ==
    \A d \in deliverables :
        /\ d.manual_progress_override = 1 => EarnedCase(d) = d.earned_hours
        /\ d.manual_progress_override # 1 =>
               100 * EarnedCase(d) = d.budget_hours * d.physical_progress

\* a formula row with progress above 100 whose stored earned_hours is ignored,
\* and an override row whose negative progress is ignored
C4_Witness ==
    /\ \E d \in deliverables :
          /\ d.manual_progress_override = 0 /\ d.physical_progress > 100
          /\ d.earned_hours = 30 /\ EarnedCase(d) = 150
    /\ \E d \in deliverables :
          /\ d.manual_progress_override = 1 /\ d.physical_progress < 0
          /\ EarnedCase(d) = 30

\* the effective earned hours of one deliverable, as the specification states
EffectiveEarned(d) ==
    IF d.manual_progress_override = 1 THEN d.earned_hours
    ELSE (d.budget_hours * d.physical_progress) \div 100

\* C5: for every project, the earned_hours of the groups of
\* get_project_summary add up to the earned_hours of calculate_earned_value,
\* and both are the sum of the effective earned hours of the project's
\* deliverables; 0 for a project without deliverables.
C5_EarnedAdditivity ==
    \A p \in 1..Cardinality(ProjectCodes) :
        LET earned == get_project_summary(p).earned
            delivs == {d \in deliverables : d.project_id = p}
        IN  /\ SetSum(earned, DOMAIN earned) = calculate_earned_value(p)
            /\ calculate_earned_value(p) =
                   SetSum([d \in delivs |-> EffectiveEarned(d)], delivs)
            /\ delivs = {} => calculate_earned_value(p) = 0

\* a project with two function groups, an override row and a formula row
\* that has earned something, next to a project without deliverables
C5_Witness ==
    /\ Len(projects) = 2
    /\ \A d \in deliverables : d.project_id = 1
    /\ \E d1, d2 \in deliverables :
          /\ d1.function # d2.function
          /\ d1.manual_progress_override = 1
          /\ d2.manual_progress_override = 0 /\ d2.physical_progress > 0
    /\ DOMAIN get_project_summary(1).earned = Functions
    /\ calculate_earned_value(1) = 180
    /\ calculate_earned_value(2) = 0

---------------------------------------------------------------------------
(* Claims about bulk replace *)

\* C10: a bulk_update_deliverables call commits nothing until it ends; it ends
\* either with the project's deliverables being exactly the rows of df and the
\* other projects' rows untouched, or, when a row insert fails, with the
\* deliverables table exactly as it was before the call.
C10_BulkReplaceAtomic ==
    [][conn.pc = "bulk_insert" =>
         \/ /\ conn'.pc = "bulk_insert"
            /\ deliverables' = deliverables
         \/ /\ conn' = Idle
            /\ result'.status = "error"
            /\ deliverables' = deliverables
         \/ /\ conn' = Idle
            /\ result'.status = "ok"
            /\ {d \in deliverables' : d.project_id # conn.project_id} =
               {d \in deliverables : d.project_id # conn.project_id}
            /\ Cardinality({d \in deliverables' :
                               d.project_id = conn.project_id}) = Len(conn.df)
            /\ \A i \in 1..Len(conn.df) :
                  \E d \in deliverables' :
                      /\ d.project_id = conn.project_id
                      /\ d.id = seq_deliverables + i
                      /\ DelivContent(d) = conn.df[i]
    ]_vars

\* the second row of df failed after the first was inserted, and the rows the
\* project had before the call are still there
C10_Witness ==
    /\ result.op = "bulk_update_deliverables"
    /\ result.status = "error"
    /\ result.value = 2
    /\ conn = Idle
    /\ \E d \in deliverables :
          d.project_id = result.args[1] /\ d.id <= MaxDelivId

---------------------------------------------------------------------------
(* Claims about rate resolution *)

\* the rate_schedule rows of a position in force on a date
RowsInForce(position, date) ==
    {r \in rate_schedule :
        /\ r.position = position
        /\ r.effective_date <= date
        /\ (r.end_date = NULL \/ r.end_date > date)}

\* C6: get_rate_for_position returns the rate of the row of the position with
\* the greatest effective_date among the rows with effective_date <= date and
\* end_date null or after the date, never that of a row whose end_date has
\* been reached, and 170 when no row qualifies.
C6_RateResolution ==
    result.op = "get_rate_for_position" =>
        LET inForce == RowsInForce(result.args[1], result.args[2])
        IN  /\ inForce = {} => result.value = 170
            /\ inForce # {} =>
                   \E r \in inForce :
                       /\ result.value = r.rate
                       /\ \A q \in inForce :
                              q.effective_date <= r.effective_date

\* two rows in force, the later one chosen, while the row with the latest
\* effective_date of all has reached its end_date and carries another rate
C6_Witness ==
    /\ result.op = "get_rate_for_position"
    /\ LET position == result.args[1]
           date == result.args[2]
           inForce == RowsInForce(position, date)
       IN  /\ Cardinality(inForce) = 2
           /\ \E r, q \in inForce :
                 /\ q.effective_date < r.effective_date
                 /\ q.rate # r.rate
                 /\ result.value = r.rate
           /\ \E e \in rate_schedule :
                 /\ e.position = position
                 /\ e.end_date # NULL /\ e.end_date <= date
                 /\ e.rate # result.value
                 /\ \A r \in inForce : r.effective_date < e.effective_date

---------------------------------------------------------------------------
(* Claims about snapshots *)

\* the create_snapshot calls made for a project on a day
SnapshotCallsOn(project_id, day) ==
    Len(SelectSeq(snapshot_calls, LAMBDA c : c = <<project_id, day>>))

\* the snapshot rows of a project taken on a day
SnapshotsOn(project_id, day) ==
    {s \in weekly_snapshots :
        s.project_id = project_id /\ Day(s.snapshot_date) = day}

\* C7: when create_snapshot has been called twice for a project on one
\* calendar day, the second call has been rejected with an error and
\* weekly_snapshots holds exactly one row for that project and day.
C7_OneSnapshotPerDay ==
    \A p \in ProjectIds, day \in 0..Day(MaxClock) :
        (/\ result.op = "create_snapshot"
         /\ snapshot_calls[Len(snapshot_calls)] = <<p, day>>
         /\ SnapshotCallsOn(p, day) = 2)
        => /\ result.status = "error"
           /\ Cardinality(SnapshotsOn(p, day)) = 1

\* C8: create_snapshot on an existing project completes and inserts exactly
\* one row, which carries the rollups of the project: budget_hours,
\* actual_hours, earned_hours, forecast_to_complete and forecast_at_completion
\* = actual_hours + forecast_to_complete, with the serialized state.
C8_SnapshotInsertsRollups ==
    (result.op = "create_snapshot" /\ result.args[1] \in ProjectIds) =>
        LET p == result.args[1]
            rows == {s \in weekly_snapshots : s.project_id = p}
            delivs == {d \in deliverables : d.project_id = p}
            ts == TimesheetsOf(p)
            actual == SetSum([t \in ts |-> t.hours], ts)
            ftc == SetSum([d \in delivs |-> d.forecast_to_complete], delivs)
        IN  /\ result.status = "ok"
            /\ Cardinality(rows) =
                   Len(SelectSeq(snapshot_calls, LAMBDA c : c[1] = p))
            /\ \E s \in rows :
                  /\ s.snapshot_date = clock - 1
                  /\ s.week_ending = result.args[2]
                  /\ s.budget_hours =
                         SetSum([d \in delivs |-> d.budget_hours], delivs)
                  /\ s.actual_hours = actual
                  /\ s.earned_hours = calculate_earned_value(p)
                  /\ s.forecast_to_complete = ftc
                  /\ s.forecast_at_completion = actual + ftc
                  /\ s.deliverable_state = delivs
                  /\ s.forecast_state = get_project_summary(p)

---------------------------------------------------------------------------
(* Claims about timesheet imports *)

\* a source row that sqlite rejects: NULL in one of the NOT NULL columns
BatchHasBadRow(df) ==
    \E i \in 1..Len(df) :
        \/ df[i].date = NULL
        \/ df[i].staff_name = NoneText
        \/ df[i].hours = NULL
        \/ df[i].function = NoneText
        \/ df[i].rate = NULL
        \/ df[i].cost = NULL
        \/ df[i].week_ending = NULL

\* the rows i+1.. of the table are the rows of df, tagged with batch_id
BatchPresent(tbl, n, project_id, df, batch_id) ==
    /\ Len(tbl) = n + Len(df)
    /\ \A i \in 1..Len(df) :
          /\ tbl[n + i].project_id = project_id
          /\ tbl[n + i].import_batch_id = batch_id
          /\ tbl[n + i].date = df[i].date
          /\ tbl[n + i].staff_name = df[i].staff_name
          /\ tbl[n + i].task_name = df[i].task_name
          /\ tbl[n + i].hours = df[i].hours
          /\ tbl[n + i].cost = df[i].cost

\* C11: import_timesheets is all-or-nothing.  While the call runs the table
\* is as before; when it ends, the table is as before if some row of the
\* batch was rejected (and the caller gets the error), and otherwise holds
\* the old rows followed by every row of the batch, each tagged with the
\* given import_batch_id.
C11_ImportAllOrNothing ==
    [][conn.pc = "timesheet_insert" =>
          IF conn'.pc = "timesheet_insert"
            THEN timesheets' = timesheets
            ELSE IF BatchHasBadRow(conn.df)
                   THEN /\ timesheets' = timesheets
                        /\ result'.op = "import_timesheets"
                        /\ result'.status = "error"
                   ELSE /\ result'.op = "import_timesheets"
                        /\ result'.status = "ok"
                        /\ SubSeq(timesheets', 1, Len(timesheets)) = timesheets
                        /\ BatchPresent(timesheets', Len(timesheets),
                                        conn.project_id, conn.df,
                                        conn.batch_id)]_vars

\* the second row of a batch was rejected after the first had been inserted
C11_Witness ==
    /\ result.op = "import_timesheets"
    /\ result.status = "error"
    /\ result.value = 2
    /\ conn = Idle
    /\ timesheets = <<>>

\* C19: timesheets holds at most one row per (staff_name, date, task_name)
\* of a project, whatever imports were made.
C19_OneRowPerStaffDateTask ==
    \A i, j \in 1..Len(timesheets) :
        (/\ timesheets[i].project_id = timesheets[j].project_id
         /\ timesheets[i].staff_name = timesheets[j].staff_name
         /\ timesheets[i].date = timesheets[j].date
         /\ timesheets[i].task_name = timesheets[j].task_name) => i = j

---------------------------------------------------------------------------
(* Claims about the manning forecast and its reconciliation *)

\* the manning rows of a project that end after the given day
ManningRowsAfter(project_id, today) ==
    {m \in manning_forecast :
        m.project_id = project_id /\ m.week_ending > today}

ProjectDeliverables(project_id) ==
    {d \in deliverables : d.project_id = project_id}

\* C12: get_forecast_reconciliation(project_id) returns deliverable_ftc, the
\* sum of forecast_to_complete over the project's deliverables, manning_ftc,
\* the sum of forecast_hours over the project's manning rows whose
\* week_ending is strictly after the current date, and variance, their
\* difference; a sum over no rows is 0 and never null.
C12_ForecastReconciliation ==
    result.op = "page_forecast_recon" =>
        LET p == result.args[1]
            today == result.args[2]
            recon == result.value.recon
            delivs == ProjectDeliverables(p)
            rows == ManningRowsAfter(p, today)
        IN  /\ recon.deliverable_ftc =
                   SetSum([d \in delivs |-> d.forecast_to_complete], delivs)
            /\ recon.manning_ftc =
                   SetSum([m \in rows |-> m.forecast_hours], rows)
            /\ recon.variance = recon.deliverable_ftc - recon.manning_ftc
            /\ recon.deliverable_ftc # NULL
            /\ recon.manning_ftc # NULL
            /\ recon.variance # NULL

\* a row that ends today was left out, a later one counted
C12_Witness ==
    /\ result.op = "page_forecast_recon"
    /\ result.args = <<1, 1>>
    /\ \E m \in manning_forecast : m.project_id = 1 /\ m.week_ending = 1
    /\ \E m \in manning_forecast :
          /\ m.project_id = 1
          /\ m.week_ending = 2
          /\ result.value.recon.manning_ftc = m.forecast_hours
    /\ result.value.recon.deliverable_ftc = 100

\* C13: the page asks for reconciliation exactly when the variance is more
\* than 20 hours away from zero, on either side, and reports the forecasts
\* as aligned otherwise; a variance of exactly 20 or -20 is aligned.
C13_ReconciliationThreshold ==
    result.op = "page_forecast_recon" =>
        LET v == result.value.recon.variance
            message == result.value.message
        IN  /\ (message = "Reconcile before reporting")
                   <=> (v > 20 \/ v < 0 - 20)
            /\ (message = "Forecasts are aligned")
                   <=> (v >= 0 - 20 /\ v =< 20)

\* 100 hours to complete against 120 hours of manning: aligned
C13_Witness ==
    /\ result.op = "page_forecast_recon"
    /\ result.value.recon.variance = 0 - 20
    /\ result.value.message = "Forecasts are aligned"

\* the manning rows that are not the row of the given key
ManningRowsElsewhere(tbl, project_id, person_name, week_ending) ==
    {m \in tbl : ~(/\ m.project_id = project_id
                   /\ m.person_name = person_name
                   /\ m.week_ending = week_ending)}

\* C18: manning_forecast holds at most one row per (project_id, person_name,
\* week_ending); every row has forecast_cost = forecast_hours * hourly_rate;
\* an update_forecast call for a person of the staff table leaves the row of
\* its key with its forecast_hours and rate, and the table changes only by
\* such a call, which leaves the rows of the other keys alone.
C18_OneRowPerPersonWeek ==
    /\ [](\A m1, m2 \in manning_forecast :
              (/\ m1.project_id = m2.project_id
               /\ m1.person_name = m2.person_name
               /\ m1.week_ending = m2.week_ending) => m1 = m2)
    /\ [](\A m \in manning_forecast :
              m.forecast_cost = m.forecast_hours * m.hourly_rate)
    /\ []((/\ result.op = "update_forecast"
           /\ \E s \in staff : s.name = result.args[2]) =>
              \E m \in manning_forecast :
                  /\ m.project_id = result.args[1]
                  /\ m.person_name = result.args[2]
                  /\ m.week_ending = result.args[3]
                  /\ m.forecast_hours = result.args[4]
                  /\ m.hourly_rate = result.args[6])
    /\ [][manning_forecast' # manning_forecast =>
              /\ result'.op = "update_forecast"
              /\ ManningRowsElsewhere(manning_forecast', result'.args[1],
                                      result'.args[2], result'.args[3])
                   = ManningRowsElsewhere(manning_forecast, result'.args[1],
                                          result'.args[2], result'.args[3])
         ]_vars

\* the only row of the table was written by the second call for its key
C18_Witness ==
    /\ result.op = "update_forecast"
    /\ seq_manning = 2
    /\ \E m \in manning_forecast :
          /\ manning_forecast = {m}
          /\ m.id = 2
          /\ m.forecast_hours = result.args[4]
          /\ m.hourly_rate = result.args[6]
          /\ m.forecast_cost = 120 * 170

---------------------------------------------------------------------------
(* Claims about change orders *)

\* every target of tbl2 has budget_hours and forecast_to_complete of tbl1
\* plus total/n
TargetsRaised(tbl1, tbl2, targets, total, n) ==
    \A d \in tbl1 :
        d.id \in targets =>
            \E e \in tbl2 :
                /\ e.id = d.id
                /\ e.budget_hours * n = d.budget_hours * n + total
                /\ e.forecast_to_complete * n
                       = d.forecast_to_complete * n + total

\* C14: incorporate(co_id, targets) with n >= 1 targets adds
\* (hours_mgmt + hours_eng + hours_draft) / n to budget_hours and to
\* forecast_to_complete of every target deliverable, leaves the other
\* deliverables as they are, and sets the change order to incorporated with
\* incorporated_date stamped.
C14_IncorporateDistributesEvenly ==
    [][(result'.op = "incorporate" /\ clock' = clock) =>
          LET co_id == result'.args[1]
              targets == result'.args[2]
              co == change_orders[co_id]
              n == Cardinality(targets)
              total == co.hours_mgmt + co.hours_eng + co.hours_draft
          IN  n >= 1 =>
                /\ TargetsRaised(deliverables, deliverables', targets,
                                 total, n)
                /\ \A d \in deliverables :
                       d.id \notin targets => d \in deliverables'
                /\ Cardinality(deliverables') = Cardinality(deliverables)
                /\ change_orders'[co_id].status = "incorporated"
                /\ change_orders'[co_id].incorporated_date # NULL]_vars

\* 10 + 20 + 0 hours over two targets of 100 hours: 115 each
C14_Witness ==
    /\ result.op = "incorporate"
    /\ result.args = <<1, {1, 2}>>
    /\ change_orders[1].status = "incorporated"
    /\ change_orders[1].incorporated_date # NULL
    /\ change_orders[1].hours_mgmt = 10
    /\ change_orders[1].hours_eng = 20
    /\ change_orders[1].hours_draft = 0
    /\ \A d \in deliverables :
          d.budget_hours = 115 /\ d.forecast_to_complete = 115

\* C15: incorporate is not idempotent.  A call that repeats the call before
\* it (same change order, same targets) finds the change order incorporated
\* and adds the share to every target once more.
C15_IncorporateNotIdempotent ==
    [][(result.op = "incorporate" /\ result' = result /\ clock' = clock) =>
          LET co_id == result.args[1]
              targets == result.args[2]
              co == change_orders[co_id]
              n == Cardinality(targets)
              total == co.hours_mgmt + co.hours_eng + co.hours_draft
          IN  /\ co.status = "incorporated"
              /\ TargetsRaised(deliverables, deliverables', targets,
                               total, n)]_vars

\* the only change order, of 30 hours, went twice into both deliverables
C15_Witness ==
    /\ result.op = "incorporate"
    /\ result.args = <<1, {1, 2}>>
    /\ Len(change_orders) = 1
    /\ change_orders[1].hours_mgmt = 10
    /\ change_orders[1].hours_eng = 20
    /\ change_orders[1].hours_draft = 0
    /\ \A d \in deliverables :
          d.budget_hours = 130 /\ d.forecast_to_complete = 130
    /\ Cardinality(deliverables) = 2

\* C16: a change order whose status is incorporated never changes again, in
\* status, hours or any other field.
C16_IncorporatedIsImmutable ==
    [][\A i \in 1..Len(change_orders) :
           change_orders[i].status = "incorporated" =>
               change_orders'[i] = change_orders[i]]_vars

---------------------------------------------------------------------------
(* Claims about project creation *)

\* C17: create_project with a missing identity field (name or client absent
\* or empty) inserts no project row: the projects table never holds a row
\* whose name or client is absent or empty.
C17_NoProjectWithoutIdentity ==
    \A i \in 1..Len(projects) :
        /\ projects[i].name \notin {"", NoneText}
        /\ projects[i].client \notin {"", NoneText}

---------------------------------------------------------------------------
(* Claims about week endings *)

\* 2025-01-04, day 3, is a Saturday, and so is every seventh day after it
IsSaturday(day) == \E k \in 0..day : day = 3 + 7 * k

\* C20: calculate_week_ending(d) is a Saturday w with d < w <= d + 7, the
\* nearest Saturday strictly after d; 2025-06-14 (day 164, a Saturday) and
\* 2025-06-16 (day 166, a Monday) both give 2025-06-21 (day 171).
C20_WeekEndingIsNextSaturday ==
    result.op = "calculate_week_ending" =>
        LET d == result.args[1]
            w == result.value
        IN  /\ IsSaturday(w)
            /\ d < w
            /\ w =< d + 7
            /\ \A v \in (d + 1)..(w - 1) : ~IsSaturday(v)
            /\ d \in {164, 166} => w = 171

\* a Saturday is sent a full week ahead
C20_Witness ==
    /\ result.op = "calculate_week_ending"
    /\ result.args = <<164>>
    /\ result.value = 171

---------------------------------------------------------------------------
(* Claims about the import helpers of app.py *)

\* the characters from..to of chars are decimal digits, at least one
DigitRun(chars, from, to) ==
    /\ from =< to
    /\ \A i \in from..to : chars[i] \in {"0", "1", "2", "3", "4", "5", "6",
                                         "7", "8", "9"}

RECURSIVE Decimal(_, _, _)
\* the number the digits from..to of chars write
Decimal(chars, from, to) ==
    IF from > to THEN 0
    ELSE DigitValue(chars[from]) * 10 ^ (to - from)
             + Decimal(chars, from + 1, to)

ColonsOf(chars) == {i \in 1..Len(chars) : chars[i] = ":"}

\* C21: parse_time_to_hours returns H + M/60 + S/3600 for "H:M:S" text,
\* H + M/60 for "H:M" text, the number itself for numeric input, 0.0 for
\* empty or missing input and 0.0 for every other text (parts that are not
\* numbers, more than three parts).  Values are in seconds.
C21_ParseTimeToHours ==
    (result.op = "parse_time_to_hours" /\ result.status = "ok") =>
        LET t == result.args[1]
            v == result.value
        IN  /\ t.kind = "missing" => v = 0
            /\ t.kind = "number" => v = 3600 * t.value
            /\ t.kind = "text" =>
                 LET c == t.chars
                     n == Len(c)
                     colons == ColonsOf(c)
                 IN  CASE colons = {} /\ DigitRun(c, 1, n) ->
                              v = 3600 * Decimal(c, 1, n)
                       [] Cardinality(colons) = 1 ->
                              LET i == CHOOSE x \in colons : TRUE
                              IN  IF DigitRun(c, 1, i - 1)
                                       /\ DigitRun(c, i + 1, n)
                                    THEN v = 3600 * Decimal(c, 1, i - 1)
                                               + 60 * Decimal(c, i + 1, n)
                                    ELSE v = 0
                       [] Cardinality(colons) = 2 ->
                              LET i == CHOOSE x \in colons :
                                           \A y \in colons : x =< y
                                  j == CHOOSE x \in colons :
                                           \A y \in colons : y =< x
                              IN  IF /\ DigitRun(c, 1, i - 1)
                                     /\ DigitRun(c, i + 1, j - 1)
                                     /\ DigitRun(c, j + 1, n)
                                    THEN v = 3600 * Decimal(c, 1, i - 1)
                                               + 60 * Decimal(c, i + 1, j - 1)
                                               + Decimal(c, j + 1, n)
                                    ELSE v = 0
                       [] OTHER -> v = 0

\* "1:30" is an hour and a half
C21_Witness ==
    /\ result.op = "parse_time_to_hours"
    /\ result.status = "ok"
    /\ result.args = <<[kind |-> "text", chars |-> <<"1", ":", "3", "0">>]>>
    /\ result.value = 5400

\* upper and lower case of the letters of the keywords
SameLetter(c, k) ==
    \/ c = k
    \/ <<c, k>> \in {<<"p", "P">>, <<"m", "M">>, <<"d", "D">>, <<"f", "F">>,
                     <<"a", "A">>, <<"n", "N">>, <<"g", "G">>, <<"e", "E">>,
                     <<"t", "T">>, <<"r", "R">>}

\* the keyword occurs in the task name, whatever the case of the letters
Occurs(keyword, chars) ==
    \E i \in 0..(Len(chars) - Len(keyword)) :
        \A k \in 1..Len(keyword) : SameLetter(chars[i + k], keyword[k])

\* C23: map_function gives MANAGEMENT to a task name that contains "PM" or
\* "MANAGEMENT" in any case, otherwise DRAFTING to one that contains "DF",
\* "DRAFT" or "3D", otherwise ENGINEERING, also for a missing task name.
C23_MapFunction ==
    (result.op = "map_function" /\ result.status = "ok") =>
        LET t == result.args[1]
            f == result.value
            management ==
                /\ t.kind = "text"
                /\ \/ Occurs(<<"P", "M">>, t.chars)
                   \/ Occurs(<<"M", "A", "N", "A", "G", "E", "M", "E", "N",
                               "T">>, t.chars)
            drafting ==
                /\ t.kind = "text"
                /\ \/ Occurs(<<"D", "F">>, t.chars)
                   \/ Occurs(<<"D", "R", "A", "F", "T">>, t.chars)
                   \/ Occurs(<<"3", "D">>, t.chars)
        IN  /\ management => f = "MANAGEMENT"
            /\ (~management /\ drafting) => f = "DRAFTING"
            /\ (~management /\ ~drafting) => f = "ENGINEERING"

\* "dFpM" holds a drafting and a management keyword: MANAGEMENT
C23_Witness ==
    /\ result.op = "map_function"
    /\ result.status = "ok"
    /\ result.args = <<[kind |-> "text", chars |-> <<"d", "F", "p", "M">>]>>
    /\ result.value = "MANAGEMENT"

\* the rate of the schedule for a position, 170 when it has none
ScheduledRate(position) ==
    IF \E r \in rate_schedule : r.position = position
      THEN (CHOOSE r \in rate_schedule : r.position = position).rate
      ELSE 170

\* C22: every imported timesheet row has cost = hours * rate; rate is the
\* rate of the staff member's position when staff_name is an active row of
\* the staff table and 170 when it is not (unknown or inactive); an import
\* of rows with such names does not fail.
C22_ImportedRateAndCost ==
    /\ \A i \in 1..Len(timesheets) :
          LET row == timesheets[i]
              known == {s \in staff :
                            s.name = row.staff_name /\ s.active = 1}
          IN  /\ row.cost = row.hours * row.rate
              /\ known # {} =>
                     \E s \in known : row.rate = ScheduledRate(s.position)
              /\ known = {} => row.rate = 170
    /\ result.op = "import_timesheets" => result.status = "ok"

\* a batch with an inactive and an unknown name went in at 170
C22_Witness ==
    /\ result.op = "import_timesheets"
    /\ result.status = "ok"
    /\ Len(timesheets) = 2
    /\ \E s \in staff : s.name = "Gavin Andersen" /\ s.active = 0
    /\ timesheets[1].staff_name = "Gavin Andersen"
    /\ timesheets[1].hours = 4
    /\ timesheets[1].cost = 680
    /\ timesheets[2].staff_name = "Pat Temp"
    /\ timesheets[2].cost = 340

---------------------------------------------------------------------------
(* Claims about the project summary *)

\* the rows of a table that belong to the project and have the function
RowsOfFunction(rows, project_id, function) ==
    {r \in rows : r.project_id = project_id /\ r.function = function}

TimesheetRowsWithId ==
    {[id |-> i, project_id |-> timesheets[i].project_id,
      function |-> timesheets[i].function, hours |-> timesheets[i].hours,
      cost |-> timesheets[i].cost] : i \in 1..Len(timesheets)}

\* C24: get_project_summary(project_id) has, in budget, earned and forecast,
\* one group for each function that occurs among the deliverables of the
\* project, and in actuals one for each function among its timesheets; a
\* group holds the sum over the project's rows of that function; a function
\* without rows has no group; rows of other projects do not count.
C24_SummaryGroups ==
    \A p \in 1..Cardinality(ProjectCodes) :
        LET summary == get_project_summary(p)
            ts == TimesheetRowsWithId
            deliv_functions ==
                {f \in Functions : RowsOfFunction(deliverables, p, f) # {}}
            ts_functions == {f \in Functions : RowsOfFunction(ts, p, f) # {}}
        IN  /\ DOMAIN summary.budget = deliv_functions
            /\ DOMAIN summary.earned = deliv_functions
            /\ DOMAIN summary.forecast = deliv_functions
            /\ DOMAIN summary.actuals.actual_hours = ts_functions
            /\ DOMAIN summary.actuals.actual_cost = ts_functions
            /\ \A f \in deliv_functions :
                  LET rows == RowsOfFunction(deliverables, p, f)
                  IN  /\ summary.budget[f] =
                            SetSum([d \in rows |-> d.budget_hours], rows)
                      /\ summary.forecast[f] =
                            SetSum([d \in rows |-> d.forecast_to_complete],
                                   rows)
                      /\ summary.earned[f] =
                            SetSum([d \in rows |-> EffectiveEarned(d)], rows)
            /\ \A f \in ts_functions :
                  LET rows == RowsOfFunction(ts, p, f)
                  IN  /\ summary.actuals.actual_hours[f] =
                            SetSum([t \in rows |-> t.hours], rows)
                      /\ summary.actuals.actual_cost[f] =
                            SetSum([t \in rows |-> t.cost], rows)

\* project 1 has only ENGINEERING deliverables and only MANAGEMENT hours,
\* project 2 has MANAGEMENT deliverables and ENGINEERING hours
C24_Witness ==
    /\ Len(projects) = 2
    /\ conn = Idle
    /\ DOMAIN get_project_summary(1).budget = {"ENGINEERING"}
    /\ get_project_summary(1).earned["ENGINEERING"] = 150
    /\ DOMAIN get_project_summary(1).actuals.actual_hours = {"MANAGEMENT"}
    /\ DOMAIN get_project_summary(2).budget = {"MANAGEMENT"}
    /\ DOMAIN get_project_summary(2).actuals.actual_hours = {"ENGINEERING"}

---------------------------------------------------------------------------
(* Claims about deleting a project *)

\* C25: after a project is deleted, no row of a child table (deliverables,
\* change orders, purchase orders, timesheets, manning forecast, snapshots)
\* references it.
C25_DeleteCascades ==
    [][result'.op = "delete_project" =>
          LET p == result'.args[1]
          IN  /\ \A d \in deliverables' : d.project_id # p
              /\ \A i \in 1..Len(change_orders') :
                     change_orders'[i].project_id # p
              /\ \A i \in 1..Len(purchase_orders') :
                     purchase_orders'[i].project_id # p
              /\ \A i \in 1..Len(timesheets') : timesheets'[i].project_id # p
              /\ \A m \in manning_forecast' : m.project_id # p
              /\ \A w \in weekly_snapshots' : w.project_id # p]_vars

---------------------------------------------------------------------------
(* Claims about concurrent invoices *)

\* the amounts of the invoices of a purchase order, in id order
InvoiceAmountsOf(po_id) ==
    LET ids == {i \in 1..Len(invoices) : invoices[i].po_id = po_id}
    IN  SetSum([i \in ids |-> invoices[i].amount], ids)

\* C26: when create_invoice calls against the same purchase order run on
\* separate connections at the same time, then once the calls have
\* committed invoiced_to_date is the sum of the amounts of all the invoices
\* of the purchase order.
C26_NoLostInvoiceUpdate ==
    (\A s \in Sessions : sessions[s] = Idle) =>
        \A po \in 1..Len(purchase_orders) :
            purchase_orders[po].invoiced_to_date = InvoiceAmountsOf(po)

\* the second connection waits for the write lock while the first is
\* about to commit an invoice for the same purchase order
C26_Witness ==
    /\ sessions[1].pc = "commit"
    /\ sessions[2].pc = "insert"
    /\ sessions[1].po_id = sessions[2].po_id
    /\ Len(invoices) = 1
    /\ invoices[1].po_id = sessions[1].po_id
    /\ sessions[1].total_invoiced
           = invoices[1].amount + sessions[1].amount

---------------------------------------------------------------------------
(* Frame claims *)

\* every purchase order but the given one is as before
OtherPOsUnchanged(before, after, po_id) ==
    /\ Len(after) = Len(before)
    /\ \A i \in 1..Len(before) : i # po_id => after[i] = before[i]

\* C27: create_invoice changes only the invoices table and invoiced_to_date
\* of its purchase order; update_po_accrual changes only accrued_work_done
\* and remaining_commitment of its purchase order and leaves the invoices
\* table alone.  Every other purchase order is unchanged by both.
C27_InvoiceAndAccrualFrames ==
    [][/\ result'.op = "create_invoice" =>
             LET po == result'.args[1]
             IN  /\ OtherPOsUnchanged(purchase_orders, purchase_orders', po)
                 /\ purchase_orders'[po].commitment_value
                        = purchase_orders[po].commitment_value
                 /\ purchase_orders'[po].accrued_work_done
                        = purchase_orders[po].accrued_work_done
                 /\ purchase_orders'[po].remaining_commitment
                        = purchase_orders[po].remaining_commitment
                 /\ purchase_orders'[po].project_id
                        = purchase_orders[po].project_id
                 /\ UNCHANGED <<projects, deliverables, timesheets,
                                change_orders, manning_forecast>>
       /\ result'.op = "update_po_accrual" =>
             LET po == result'.args[1]
             IN  /\ invoices' = invoices
                 /\ OtherPOsUnchanged(purchase_orders, purchase_orders', po)
                 /\ po \in 1..Len(purchase_orders) =>
                        /\ purchase_orders'[po].invoiced_to_date
                               = purchase_orders[po].invoiced_to_date
                        /\ purchase_orders'[po].commitment_value
                               = purchase_orders[po].commitment_value
                        /\ purchase_orders'[po].project_id
                               = purchase_orders[po].project_id
                 /\ UNCHANGED <<projects, deliverables, timesheets,
                                change_orders, manning_forecast>>]_vars

\* an invoice arrived for a purchase order with an accrual while another
\* purchase order, with an accrual of its own, stood by
C27_Witness ==
    /\ result.op = "create_invoice"
    /\ result.args[1] = 1
    /\ Len(purchase_orders) = 2
    /\ purchase_orders[1].accrued_work_done = 1000
    /\ purchase_orders[1].remaining_commitment = 9000
    /\ purchase_orders[1].invoiced_to_date = result.args[2]
    /\ purchase_orders[2].accrued_work_done = 1000
    /\ purchase_orders[2].invoiced_to_date = 0

\* C28: update_forecast for a person_name that is not in the staff table
\* writes nothing and raises nothing: manning_forecast is as before, and no
\* row of it ever carries such a name, so the hours never reach manning_ftc.
C28_UnknownPersonWritesNothing ==
    /\ [](\A m \in manning_forecast :
              \E s \in staff : s.name = m.person_name)
    /\ [][(/\ result'.op = "update_forecast"
           /\ \A s \in staff : s.name # result'.args[2]) =>
              /\ manning_forecast' = manning_forecast
              /\ seq_manning' = seq_manning
              /\ result'.status = "ok"]_vars

\* a forecast for an unknown person was asked for next to a stored one
C28_Witness ==
    /\ result.op = "update_forecast"
    /\ result.args[2] = "Pat Temp"
    /\ result.status = "ok"
    /\ manning_forecast # {}
    /\ \A m \in manning_forecast : m.person_name = "Will Smith"

---------------------------------------------------------------------------
(* Claims about saving the edited deliverables table *)

\* the cell of column key in a frame row, NULL when the row has no value
CellOf(row, key) == IF key \in DOMAIN row THEN row[key] ELSE NULL

\* the rows of deliverables' stored for the frame of the running bulk update
StoredFor(i) ==
    {d \in deliverables' : d.id = seq_deliverables + i}

\* C29: a successful bulk_update_deliverables(project_id, df) leaves the
\* deliverable rows of every other project as they were, leaves project_id
\* with exactly as many deliverables as df has rows (none for an empty df),
\* and stores forecast_to_complete = budget_hours for every row of df that
\* has no forecast_to_complete value
C29_BulkReplaceFrame ==
    [][(/\ conn.pc = "bulk_insert"
        /\ conn' = Idle
        /\ result'.op = "bulk_update_deliverables"
        /\ result'.status = "ok")
       => /\ \A p \in ProjectIds : p # conn.project_id =>
                 DeliverablesOf(deliverables', p) =
                 DeliverablesOf(deliverables, p)
          /\ Cardinality(DeliverablesOf(deliverables', conn.project_id)) =
                 Len(conn.df)
          /\ \A i \in 1..Len(conn.df) :
                 CellOf(conn.df[i], "forecast_to_complete") = NULL =>
                     \A d \in StoredFor(i) :
                         /\ d.project_id = conn.project_id
                         /\ d.forecast_to_complete = conn.df[i].budget_hours
         ]_vars

---------------------------------------------------------------------------
(* Claims about the earned hours shown by the pages *)

\* C30: whatever deliverables a project has stored, the earned-hours total
\* the Deliverables page and the Dashboard page show for it is the total
\* calculate_earned_value returns, also when a row's
\* manual_progress_override is NULL or a value other than 0 and 1
C30_PagesAgreeWithEarnedValue ==
    [][(/\ result'.op \in {"page_deliverables", "page_dashboard"}
        /\ result'.status = "ok")
       => result'.value = calculate_earned_value(result'.args[1])
     ]_vars

=============================================================================
